------------------------- MODULE WorkManagerProofs -------------------------
(***************************************************************************)
(* Theorems about WorkManager for every set of workers, addresses,         *)
(* requests and persists and every budget and bound.  TypeInv is the type  *)
(* invariant with the shape of a request in each of its steps and both     *)
(* directions of who holds a lock; the safety properties rest on it.       *)
(***************************************************************************)
EXTENDS WorkManager, TLAPS

WhoType == Workers \cup {NoOne}
AddressType == Addresses \cup {NoAddress}
LeaseType == [w : WhoType, live : BOOLEAN]
SubmitPcs == {"tomb", "row", "install", "enter", "relay", "bind"}
Pcs == SubmitPcs \cup {"idle", "lookup", "hydrate", "claim", "unbind", "clear", "lease",
                       "note", "lock", "stamp", "strike"}
RequestRec ==
  [pc : Pcs, op : {"", "claim", "unbind", "submit"}, w : WhoType, a : AddressType, r : Nat,
   day : Days, units : Nat, row : RowType]
PersistRec == [pc : {"idle", "snap", "revoked", "drop", "upsert", "epoch", "purge"},
               w : WhoType, row : RowType, epoch : Nat]
AdminRec == [pc : {"idle", "delete"}, w : WhoType, ban : BOOLEAN]

\* What a request knows in a step.
Shaped(q) ==
  /\ q.pc # "idle" => q.w \in Workers
  /\ q.pc \in {"lookup", "hydrate"} => q.op \in {"claim", "unbind"}
  /\ q.pc \in SubmitPcs => q.op = "submit" /\ q.r \in Ranges

MemoryType ==
  /\ active \in [Ranges -> LeaseType] /\ next \in 0..MaxRanges
  /\ worker \in [Workers -> RowType] /\ epoch \in [Workers -> Nat]
  /\ banned \subseteq Workers /\ pay \in [day : Days, units : Nat]
TableType ==
  /\ accrual \in [Workers -> RowType] /\ lockRow \in [Workers -> AddressType]
  /\ revoked \subseteq Workers /\ banFile \subseteq Workers /\ payRow \in [Days -> Nat]
HistoryType ==
  /\ earned \in [Workers -> Nat] /\ spent \in [Days -> Nat] /\ paidFor \in [Ranges -> Nat]
  /\ lifted \subseteq Workers /\ today \in Days
PersistType ==
  /\ ps \in [Persists -> PersistRec]
  /\ \A p \in Persists : ps[p].pc # "idle" => ps[p].w \in Workers
AdminType == adm \in AdminRec /\ (adm.pc = "delete" => adm.w \in Workers)
RequestType == hd \in [Handlers -> RequestRec] /\ \A h \in Handlers : Shaped(hd[h])

\* A lock is held by the process that is in one of the steps that hold it, and
\* by nobody else.
LockOK ==
  /\ mu \in Handlers \cup Persists \cup {NoOne, Admin}
  /\ payoutLockMu \in Handlers \cup {NoOne}
  /\ \A h \in Handlers : (mu = h <=> At(h, "bind")) /\ (payoutLockMu = h <=> At(h, "clear"))
  /\ \A p \in Persists : mu = p <=> PAt(p, "purge")
  /\ mu = Admin <=> adm.pc = "delete"

TypeInv ==
  MemoryType /\ TableType /\ HistoryType /\ PersistType /\ AdminType /\ RequestType /\ LockOK

----------------------------------------------------------------------------
(* Values and records.                                                      *)

\* The constant rows and records have their types.
LEMMA Values ==
  /\ NoRow \in RowType /\ NoRow.addr = NoAddress /\ NoRow.units = 0 /\ NoRow.there = FALSE
  /\ NoLease \in LeaseType /\ NoLease.w = NoOne
  /\ Idle \in RequestRec /\ Idle.pc = "idle" /\ Idle.op = "" /\ Shaped(Idle)
  /\ Asleep \in PersistRec /\ Asleep.pc = "idle"
  /\ Still \in AdminRec /\ Still.pc = "idle"
  /\ 1 \in Days
<1>0. 1 \in Days BY WorkManagerAssumption DEF Days
<1>1. NoRow \in RowType /\ NoRow.addr = NoAddress /\ NoRow.units = 0 /\ NoRow.there = FALSE
  BY DEF NoRow, RowType
<1>2. NoLease \in LeaseType /\ NoLease.w = NoOne BY DEF NoLease, LeaseType, WhoType
<1>3. Idle \in RequestRec /\ Idle.pc = "idle" /\ Idle.op = ""
  BY <1>0, <1>1 DEF Idle, RequestRec, Pcs, WhoType, AddressType
<1>4. Shaped(Idle) BY <1>3 DEF Shaped, SubmitPcs
<1>5. Asleep \in PersistRec /\ Asleep.pc = "idle" BY <1>1 DEF Asleep, PersistRec, WhoType
<1>6. Still \in AdminRec /\ Still.pc = "idle" BY DEF Still, AdminRec, WhoType
<1> QED BY <1>0, <1>1, <1>2, <1>3, <1>4, <1>5, <1>6

\* The type invariant holds in the beginning.
LEMMA InitType == Init => TypeInv
<1> SUFFICES ASSUME Init PROVE TypeInv OBVIOUS
<1>1. MemoryType
  <2>1. active \in [Ranges -> LeaseType] BY Values DEF Init
  <2>2. next \in 0..MaxRanges BY WorkManagerAssumption DEF Init
  <2>3. worker \in [Workers -> RowType] BY Values DEF Init
  <2>4. epoch \in [Workers -> Nat] /\ banned \subseteq Workers BY DEF Init
  <2>5. pay \in [day : Days, units : Nat] BY Values DEF Init
  <2> QED BY <2>1, <2>2, <2>3, <2>4, <2>5 DEF MemoryType
<1>2. TableType BY Values DEF Init, TableType, AddressType
<1>3. RequestType BY Values DEF Init, RequestType
<1>4. PersistType BY Values DEF Init, PersistType
<1>5. AdminType BY Values DEF Init, AdminType
<1>6. HistoryType BY Values DEF Init, HistoryType
<1>7. LockOK BY Values, WorkManagerAssumption DEF Init, LockOK, At, PAt, NoOne, Admin
<1> QED BY <1>1, <1>2, <1>3, <1>4, <1>5, <1>6, <1>7 DEF TypeInv

\* Request h becomes n, at one of the steps S; what it was submitted for stays.
Becomes(h, n, S) ==
  /\ hd' = [hd EXCEPT ![h] = n] /\ n \in RequestRec /\ Shaped(n) /\ n.pc \in S
  /\ n.op = "submit" => n.op = hd[h].op /\ n.day = hd[h].day
  /\ n.pc = "relay" => n.r = hd[h].r
Moves(h, S) == \E n : Becomes(h, n, S)

\* A request that ends moves to idle.
LEMMA EndsMoves ==
  ASSUME NEW h \in Handlers, NEW S, "idle" \in S, Ends(h)
  PROVE  Moves(h, S)
<1>1. hd' = [hd EXCEPT ![h] = Idle] BY Zenon DEF Ends
<1>2. Becomes(h, Idle, S) BY <1>1, Values DEF Becomes
<1> QED BY <1>2 DEF Moves

\* A request that only changes its step moves, as long as it does not become a submit.
LEMMA StepMoves ==
  ASSUME NEW h \in Handlers, NEW S, NEW s \in Pcs \cap S, s \notin {"lookup", "hydrate"}, RequestType,
         hd[h].pc # "idle", s \in SubmitPcs => hd[h].pc \in SubmitPcs, Step(h, s)
  PROVE  Moves(h, S)
<1> DEFINE q == hd[h]
           n == [q EXCEPT !.pc = s]
<1>1. q \in RequestRec /\ Shaped(q) BY DEF RequestType
<1>2. n \in RequestRec /\ n.pc = s /\ n.op = q.op /\ n.w = q.w /\ n.r = q.r /\ n.day = q.day
  BY <1>1 DEF RequestRec
<1>3. hd' = [hd EXCEPT ![h] = n] BY Zenon DEF Step
<1>4. Shaped(n) BY <1>1, <1>2 DEF Shaped
<1>5. Becomes(h, n, S) BY <1>2, <1>3, <1>4 DEF Becomes
<1> QED BY <1>5 DEF Moves

----------------------------------------------------------------------------
(* Types: requests.                                                         *)

Rest == MemoryType /\ TableType /\ HistoryType /\ PersistType /\ AdminType

\* A step that leaves memory, tables and history alone keeps their types.
LEMMA RestSame ==
  ASSUME Rest, UNCHANGED <<memory, next, tables, today, history, ps, adm>>
  PROVE  Rest'
  BY DEF Rest, MemoryType, TableType, HistoryType, PersistType, AdminType, memory, tables, history

\* A step that changes worker and nothing else of the rest.
LEMMA RestWorker ==
  ASSUME Rest, worker' \in [Workers -> RowType],
         UNCHANGED <<active, epoch, banned, pay, next, tables, today, history, ps, adm>>
  PROVE  Rest'
  BY DEF Rest, MemoryType, TableType, HistoryType, PersistType, AdminType, memory, tables, history

\* A step that changes the payout binding and nothing else of the rest.
LEMMA RestLock ==
  ASSUME Rest, lockRow' \in [Workers -> AddressType],
         UNCHANGED <<memory, next, accrual, revoked, payRow, banFile, today, history, ps, adm>>
  PROVE  Rest'
  BY DEF Rest, MemoryType, TableType, HistoryType, PersistType, AdminType, memory, tables, history

\* A row with an address is a row.
LEMMA WithAddressType ==
  ASSUME NEW row \in RowType, NEW a \in AddressType
  PROVE  WithAddress(row, a) \in RowType
  BY DEF WithAddress, RowType, AddressType

\* The read of the durable binding goes to the request's own step or to the hydration.
LEMMA LookupType ==
  ASSUME TypeInv, NEW h \in Handlers, Lookup(h)
  PROVE  Moves(h, {"claim", "unbind", "hydrate"}) /\ Rest'
<1> DEFINE q == hd[h]
           n == IF lockRow[q.w] = NoAddress THEN [q EXCEPT !.pc = q.op]
                ELSE [q EXCEPT !.pc = "hydrate", !.row.addr = lockRow[q.w]]
<1>1. RequestType /\ TableType /\ Rest BY DEF TypeInv, Rest
<1>2. hd' = [hd EXCEPT ![h] = n] BY Zenon DEF Lookup
<1>3. q \in RequestRec /\ Shaped(q) /\ q.pc = "lookup" /\ lockRow[q.w] \in AddressType
  BY <1>1 DEF Lookup, RequestType, TableType, At, Shaped
<1> HIDE DEF q
<1>4. /\ n \in RequestRec /\ Shaped(n) /\ n.pc \in {"claim", "unbind", "hydrate"} /\ n.op # "submit"
  BY <1>3 DEF RequestRec, Shaped, Pcs, SubmitPcs, AddressType, RowType
<1>5. Becomes(h, n, {"claim", "unbind", "hydrate"}) BY <1>2, <1>4 DEF Becomes
<1>6. Rest' BY <1>1, RestSame DEF Lookup
<1> QED BY <1>5, <1>6 DEF Moves

\* The hydration puts a row with an address in memory.
LEMMA HydrateType ==
  ASSUME TypeInv, NEW h \in Handlers, Hydrate(h)
  PROVE  Moves(h, {"idle", "claim", "unbind"}) /\ Rest'
<1> DEFINE q == hd[h]
           n == IF q.op = "claim" /\ q.a \notin {NoAddress, q.row.addr}
                THEN Idle ELSE [q EXCEPT !.pc = q.op, !.row = NoRow]
<1>1. RequestType /\ MemoryType /\ Rest BY DEF TypeInv, Rest
<1>2. hd' = [hd EXCEPT ![h] = n] BY Zenon DEF Hydrate
<1>3. q \in RequestRec /\ Shaped(q) /\ q.pc = "hydrate"
  BY <1>1 DEF Hydrate, RequestType, At
<1>4. q.w \in Workers /\ q.row.addr \in AddressType /\ q.op \in {"claim", "unbind"}
  BY <1>3 DEF Shaped, RequestRec, RowType, AddressType
<1>5. worker' \in [Workers -> RowType]
  <2>1. worker' = IF worker[q.w].addr = NoAddress
                  THEN [worker EXCEPT ![q.w] = WithAddress(worker[q.w], q.row.addr)] ELSE worker
    BY Zenon DEF Hydrate
  <2>2. WithAddress(worker[q.w], q.row.addr) \in RowType
    BY <1>1, <1>4, WithAddressType DEF MemoryType
  <2> QED BY <1>1, <2>1, <2>2 DEF MemoryType
<1>6. Rest' BY <1>1, <1>5, RestWorker DEF Hydrate
<1> HIDE DEF q
<1>7. /\ n \in RequestRec /\ Shaped(n) /\ n.pc \in {"idle", "claim", "unbind"} /\ n.op # "submit"
  BY <1>3, <1>4, Values DEF RequestRec, Shaped, Pcs, SubmitPcs
<1>8. Becomes(h, n, {"idle", "claim", "unbind"}) BY <1>2, <1>7 DEF Becomes
<1> QED BY <1>6, <1>8 DEF Moves

\* The binding noted after a claim is a row.
LEMMA NoteType ==
  ASSUME TypeInv, NEW h \in Handlers, Note(h)
  PROVE  Moves(h, {"lock", "stamp"}) /\ Rest'
<1> DEFINE q == hd[h]
           cur == IF worker[q.w].addr = NoAddress THEN q.a ELSE worker[q.w].addr
           s == IF cur = q.a THEN "lock" ELSE "stamp"
<1>1. RequestType /\ MemoryType /\ Rest BY DEF TypeInv, Rest
<1>2. q \in RequestRec /\ Shaped(q) /\ q.pc = "note"
  BY <1>1 DEF Note, RequestType, At
<1>3. q.w \in Workers /\ q.a \in AddressType /\ worker[q.w] \in RowType
  BY <1>1, <1>2 DEF Shaped, RequestRec, MemoryType
<1>4. cur \in AddressType BY <1>3 DEF RowType, AddressType
<1>5. worker' = [worker EXCEPT ![q.w] = WithAddress(worker[q.w], cur)] BY Zenon DEF Note
<1>6. Step(h, s) BY Zenon DEF Note
<1>7. Moves(h, {"lock", "stamp"})
  <2> HIDE DEF cur
  <2>1. s \in {"lock", "stamp"} OBVIOUS
  <2> HIDE DEF s
  <2> QED BY <1>1, <1>2, <1>6, <2>1, StepMoves DEF Pcs, SubmitPcs
<1> HIDE DEF cur
<1>8. worker' \in [Workers -> RowType] BY <1>1, <1>3, <1>4, <1>5, WithAddressType DEF MemoryType
<1>9. Rest' BY <1>1, <1>8, RestWorker DEF Note
<1> QED BY <1>7, <1>9

\* persistPayoutLock keeps the table's type.
LEMMA LockedType ==
  ASSUME TableType, NEW w \in Workers, NEW a \in AddressType
  PROVE  Locked(w, a) \in [Workers -> AddressType]
  BY DEF Locked, TableType

\* The durable binding of a claim.
LEMMA LockType ==
  ASSUME TypeInv, NEW h \in Handlers, Lock(h)
  PROVE  Moves(h, {"stamp"}) /\ Rest'
<1>1. RequestType /\ TableType /\ Rest BY DEF TypeInv, Rest
<1>2. hd[h].pc = "lock" /\ hd[h].w \in Workers /\ hd[h].a \in AddressType
  BY <1>1 DEF Lock, RequestType, RequestRec, At, Shaped
<1>3. Moves(h, {"stamp"}) BY <1>1, <1>2, StepMoves DEF Lock, Pcs, SubmitPcs
<1>4. lockRow' \in [Workers -> AddressType] BY <1>1, <1>2, LockedType DEF Lock
<1>5. Rest' BY <1>1, <1>4, RestLock DEF Lock
<1> QED BY <1>3, <1>5

\* The first half of clearPayoutLock.
LEMMA UnbindType ==
  ASSUME TypeInv, NEW h \in Handlers, Unbind(h)
  PROVE  Moves(h, {"clear"}) /\ Rest'
<1>1. RequestType /\ TableType /\ Rest BY DEF TypeInv, Rest
<1>2. hd[h].pc = "unbind" /\ hd[h].w \in Workers
  BY <1>1 DEF Unbind, RequestType, RequestRec, At, Shaped
<1>3. Moves(h, {"clear"}) BY <1>1, <1>2, StepMoves DEF Unbind, Pcs, SubmitPcs
<1>4. lockRow' \in [Workers -> AddressType] BY <1>1, <1>2 DEF Unbind, TableType, AddressType
<1>5. Rest' BY <1>1, <1>4, RestLock DEF Unbind
<1> QED BY <1>3, <1>5

\* The second half of clearPayoutLock.
LEMMA ClearType ==
  ASSUME TypeInv, NEW h \in Handlers, Clear(h)
  PROVE  Moves(h, {"idle"}) /\ Rest'
<1> DEFINE w == hd[h].w
           row == [worker[w] EXCEPT !.addr = NoAddress]
<1>1. RequestType /\ MemoryType /\ Rest BY DEF TypeInv, Rest
<1>2. w \in Workers BY <1>1 DEF Clear, RequestType, RequestRec, At, Shaped
<1>3. Moves(h, {"idle"}) BY EndsMoves DEF Clear
<1>4. row \in RowType BY <1>1, <1>2 DEF MemoryType, RowType
<1>5. worker' = [worker EXCEPT ![w] = row] BY Zenon DEF Clear
<1> HIDE DEF row
<1>6. worker' \in [Workers -> RowType] BY <1>1, <1>4, <1>5 DEF MemoryType
<1>7. Rest' BY <1>1, <1>6, RestWorker DEF Clear
<1> QED BY <1>3, <1>7

\* A request that starts knows its worker, and is a claim or an unbind.
LEMMA LookType ==
  ASSUME TypeInv, NEW h \in Handlers, NEW k \in RequestRec, k.op \in {"claim", "unbind"},
         k.w \in Workers, Look(h, k)
  PROVE  At(h, "idle") /\ Moves(h, {"idle", "lookup", "claim", "unbind"}) /\ Rest'
<1> DEFINE locked == worker[k.w].addr
           S == {"idle", "lookup", "claim", "unbind"}
           m == [k EXCEPT !.pc = "lookup"]
           n == [k EXCEPT !.pc = k.op]
<1>1. Rest BY DEF TypeInv, Rest
<1>2. At(h, "idle") BY DEF Look
<1>3. hd' = [hd EXCEPT ![h] = m] \/ hd' = [hd EXCEPT ![h] = Idle] \/ hd' = [hd EXCEPT ![h] = n]
  <2>1. \/ hd' = [hd EXCEPT ![h] = m]
        \/ hd' = [hd EXCEPT ![h] = IF k.op = "claim" /\ k.a \notin {NoAddress, locked}
                                   THEN Idle ELSE n]
    BY Zenon DEF Look
  <2> HIDE DEF m, n, locked
  <2> QED BY <2>1
<1>4. UNCHANGED <<memory, next, tables, today, history, ps, adm>> BY Zenon DEF Look
<1>5. Rest' BY <1>1, <1>4, RestSame
<1>6. m \in RequestRec /\ m.pc = "lookup" /\ m.op = k.op /\ m.w = k.w BY DEF RequestRec, Pcs
<1>7. n \in RequestRec /\ n.pc = k.op /\ n.op = k.op /\ n.w = k.w BY DEF RequestRec, Pcs
<1> HIDE DEF m, n
<1>8. Shaped(m) /\ Shaped(n) BY <1>6, <1>7 DEF Shaped, SubmitPcs
<1>9. CASE hd' = [hd EXCEPT ![h] = m]
  <2>1. Becomes(h, m, S) BY <1>6, <1>8, <1>9 DEF Becomes
  <2> QED BY <1>2, <1>5, <2>1 DEF Moves
<1>10. CASE hd' = [hd EXCEPT ![h] = n]
  <2>1. Becomes(h, n, S) BY <1>7, <1>8, <1>10 DEF Becomes
  <2> QED BY <1>2, <1>5, <2>1 DEF Moves
<1>11. CASE hd' = [hd EXCEPT ![h] = Idle]
  <2>1. Becomes(h, Idle, S) BY <1>11, Values DEF Becomes
  <2> QED BY <1>2, <1>5, <2>1 DEF Moves
<1> QED BY <1>3, <1>9, <1>10, <1>11

\* A claim begins with the look at the binding.
LEMMA StartClaimType ==
  ASSUME TypeInv, NEW h \in Handlers, NEW w \in Workers, NEW a \in AddressType, StartClaim(h, w, a)
  PROVE  At(h, "idle") /\ Moves(h, {"idle", "lookup", "claim", "unbind"}) /\ Rest'
<1> DEFINE k == [Idle EXCEPT !.op = "claim", !.w = w, !.a = a]
<1>1. Look(h, k) BY Zenon DEF StartClaim
<1>2. k \in RequestRec /\ k.op = "claim" /\ k.w = w BY Values DEF RequestRec, WhoType
<1> HIDE DEF k
<1> QED BY <1>1, <1>2, LookType

\* An unbind begins with the look at the binding.
LEMMA StartUnbindType ==
  ASSUME TypeInv, NEW h \in Handlers, NEW w \in Workers, StartUnbind(h, w)
  PROVE  At(h, "idle") /\ Moves(h, {"idle", "lookup", "claim", "unbind"}) /\ Rest'
<1> DEFINE k == [Idle EXCEPT !.op = "unbind", !.w = w]
<1>1. Look(h, k) BY Zenon DEF StartUnbind
<1>2. k \in RequestRec /\ k.op = "unbind" /\ k.w = w BY Values DEF RequestRec, WhoType
<1> HIDE DEF k
<1> QED BY <1>1, <1>2, LookType

\* allowClaimPeer lets a claim on or ends it.
LEMMA GateType ==
  ASSUME TypeInv, NEW h \in Handlers, Gate(h)
  PROVE  Moves(h, {"idle", "lease"}) /\ Rest'
<1>1. RequestType /\ Rest BY DEF TypeInv, Rest
<1>2. hd[h].pc = "claim" BY DEF Gate, At
<1>3. CASE Ends(h) BY <1>1, <1>3, EndsMoves, RestSame DEF Gate
<1>4. CASE Step(h, "lease") BY <1>1, <1>2, <1>4, StepMoves, RestSame DEF Gate, Pcs, SubmitPcs
<1> QED BY <1>3, <1>4 DEF Gate

\* A step that changes leases and the nonce counter and nothing else of the rest.
LEMMA RestLeases ==
  ASSUME Rest, active' \in [Ranges -> LeaseType], next' \in 0..MaxRanges,
         UNCHANGED <<worker, epoch, banned, pay, tables, today, history, ps, adm>>
  PROVE  Rest'
  BY DEF Rest, MemoryType, TableType, HistoryType, PersistType, AdminType, memory, tables, history

\* Dropping the expired leases leaves leases.
LEMMA PurgedType ==
  ASSUME MemoryType
  PROVE  Purged \in [Ranges -> LeaseType]
  BY Values DEF MemoryType, Purged

\* What a claim of a range does to the leases.
LEMMA LeaseStepType ==
  ASSUME TypeInv, NEW h \in Handlers, Lease(h)
  PROVE  Moves(h, {"idle", "stamp", "note"}) /\ Rest'
<1> DEFINE q == hd[h]
           S == {"idle", "stamp", "note"}
           mine == [w |-> q.w, live |-> TRUE]
<1>1. RequestType /\ MemoryType /\ Rest BY DEF TypeInv, Rest
<1>2. q \in RequestRec /\ Shaped(q) /\ q.pc = "lease" /\ q.w \in Workers
  BY <1>1 DEF Lease, RequestType, At, Shaped
<1>3. mine \in LeaseType BY <1>2 DEF LeaseType, WhoType
<1>4. ASSUME NEW r \in Ranges, Leased(h, r) PROVE Moves(h, S)
  <2> DEFINE s == IF q.a = NoAddress THEN "stamp" ELSE "note"
             k == [q EXCEPT !.pc = s]
             n == [k EXCEPT !.r = r]
  <2>1. hd' = [hd EXCEPT ![h] = n] BY <1>4, Zenon DEF Leased
  <2>2. s \in {"stamp", "note"} OBVIOUS
  <2>3. r \in Nat BY DEF Ranges
  <2> HIDE DEF s, q
  <2>4. n \in RequestRec /\ n.pc = s /\ n.op = q.op /\ n.w = q.w /\ n.day = q.day
    BY <1>2, <2>2, <2>3 DEF RequestRec, Pcs
  <2> HIDE DEF n
  <2>5. Shaped(n) BY <1>2, <2>2, <2>4 DEF Shaped, SubmitPcs
  <2>6. Becomes(h, n, S) BY <2>1, <2>2, <2>4, <2>5 DEF Becomes, q
  <2> QED BY <2>6 DEF Moves
<1>5. UNCHANGED <<worker, epoch, banned, pay, tables, today, history, ps, adm>> BY Zenon DEF Lease
<1>6. CASE \E r \in Ranges : /\ active' = [active EXCEPT ![r] = mine]
                             /\ Leased(h, r) /\ UNCHANGED next
  <2>1. active' \in [Ranges -> LeaseType] /\ next' \in 0..MaxRanges
    BY <1>1, <1>3, <1>6 DEF MemoryType
  <2> QED BY <1>1, <1>4, <1>5, <1>6, <2>1, RestLeases
<1>7. CASE /\ next < MaxRanges /\ next' = next + 1
           /\ active' = [Purged EXCEPT ![next + 1] = mine]
           /\ Leased(h, next + 1)
  <2>1. next + 1 \in Ranges /\ next' \in 0..MaxRanges
    BY <1>1, <1>7, WorkManagerAssumption DEF MemoryType, Ranges
  <2>2. active' \in [Ranges -> LeaseType] BY <1>1, <1>3, <1>7, PurgedType
  <2> QED BY <1>1, <1>4, <1>5, <1>7, <2>1, <2>2, RestLeases
<1>8. CASE UNCHANGED <<active, next>> /\ Ends(h)
  <2>1. active' \in [Ranges -> LeaseType] /\ next' \in 0..MaxRanges BY <1>1, <1>8 DEF MemoryType
  <2> QED BY <1>1, <1>5, <1>8, <2>1, EndsMoves, RestLeases
<1> QED BY <1>6, <1>7, <1>8, Zenon DEF Lease

\* A worker's row that is made has its type.
LEMMA ThereType ==
  ASSUME MemoryType, NEW w \in Workers
  PROVE  [worker EXCEPT ![w].there = TRUE] \in [Workers -> RowType]
<1> DEFINE row == [worker[w] EXCEPT !.there = TRUE]
<1>1. row \in RowType BY DEF MemoryType, RowType
<1>2. [worker EXCEPT ![w].there = TRUE] = [worker EXCEPT ![w] = row] BY Zenon
<1> HIDE DEF row
<1> QED BY <1>1, <1>2 DEF MemoryType

\* The end of a claim, with or without its lease.
LEMMA StampType ==
  ASSUME TypeInv, NEW h \in Handlers, Stamp(h)
  PROVE  Moves(h, {"idle"}) /\ Rest'
<1>1. RequestType /\ MemoryType /\ Rest BY DEF TypeInv, Rest
<1>2. hd[h].w \in Workers BY <1>1 DEF Stamp, RequestType, At, Shaped
<1>3. Moves(h, {"idle"}) BY EndsMoves DEF Stamp
<1>4. CASE active' = [active EXCEPT ![hd[h].r] = NoLease] /\ UNCHANGED worker
  <2>1. active' \in [Ranges -> LeaseType] BY <1>1, <1>4, Values DEF MemoryType
  <2>2. UNCHANGED next /\ next \in 0..MaxRanges BY <1>1 DEF Stamp, MemoryType
  <2> QED BY <1>1, <1>3, <1>4, <2>1, <2>2, RestLeases DEF Stamp
<1>5. CASE worker' = [worker EXCEPT ![hd[h].w].there = TRUE] /\ UNCHANGED active
  <2>1. worker' \in [Workers -> RowType] BY <1>1, <1>2, <1>5, ThereType
  <2> QED BY <1>1, <1>3, <1>5, <2>1, RestWorker DEF Stamp
<1> QED BY <1>4, <1>5 DEF Stamp

\* A strike changes bans only.
LEMMA StrikeType ==
  ASSUME TypeInv, NEW h \in Handlers, Strike(h)
  PROVE  Moves(h, {"idle"}) /\ Rest'
<1>1. RequestType /\ Rest BY DEF TypeInv, Rest
<1>2. Moves(h, {"idle"}) BY EndsMoves DEF Strike
<1>3. hd[h].w \in Workers BY <1>1 DEF Strike, RequestType, At, Shaped
<1>4. Rest' BY <1>1, <1>3
  DEF Strike, Rest, MemoryType, TableType, HistoryType, PersistType, AdminType, tables
<1> QED BY <1>2, <1>4

\* A submit begins with the day of its entry.
LEMMA StartSubmitType ==
  ASSUME TypeInv, NEW h \in Handlers, NEW w \in Workers, NEW a \in AddressType, NEW r \in Ranges,
         StartSubmit(h, w, a, r)
  PROVE  /\ \E n \in RequestRec : /\ hd' = [hd EXCEPT ![h] = n] /\ Shaped(n)
                                  /\ n.pc \in {"enter", "tomb"} /\ n.day = today
         /\ Rest'
<1> DEFINE s == IF worker[w].there THEN "enter" ELSE "tomb"
           n == [Idle EXCEPT !.pc = s, !.op = "submit", !.w = w, !.a = a, !.r = r, !.day = today]
<1>1. Rest /\ today \in Days BY DEF TypeInv, Rest, HistoryType
<1>2. hd' = [hd EXCEPT ![h] = n] BY Zenon DEF StartSubmit
<1>3. s \in {"enter", "tomb"} OBVIOUS
<1>4. r \in Nat BY DEF Ranges
<1> HIDE DEF s
<1>5. /\ n \in RequestRec /\ n.pc = s /\ n.op = "submit" /\ n.w = w /\ n.r = r /\ n.day = today
  BY <1>1, <1>3, <1>4, Values DEF RequestRec, WhoType, Pcs, SubmitPcs
<1> HIDE DEF n
<1>6. Shaped(n) BY <1>3, <1>5 DEF Shaped
<1>7. Rest' BY <1>1, RestSame DEF StartSubmit
<1> QED BY <1>2, <1>3, <1>5, <1>6, <1>7

\* The read of the tombstone.
LEMMA FetchTombType ==
  ASSUME TypeInv, NEW h \in Handlers, FetchTomb(h)
  PROVE  Moves(h, {"enter", "row"}) /\ Rest'
<1> DEFINE s == IF hd[h].w \in revoked THEN "enter" ELSE "row"
<1>1. RequestType /\ Rest BY DEF TypeInv, Rest
<1>2. hd[h].pc = "tomb" BY DEF FetchTomb, At
<1>3. Step(h, s) BY Zenon DEF FetchTomb
<1>4. s \in {"enter", "row"} OBVIOUS
<1> HIDE DEF s
<1>5. Moves(h, {"enter", "row"}) BY <1>1, <1>2, <1>3, <1>4, StepMoves DEF Pcs, SubmitPcs
<1>6. Rest' BY <1>1, RestSame DEF FetchTomb
<1> QED BY <1>5, <1>6

\* The read of the durable row.
LEMMA FetchRowType ==
  ASSUME TypeInv, NEW h \in Handlers, FetchRow(h)
  PROVE  Moves(h, {"install", "enter"}) /\ Rest'
<1> DEFINE q == hd[h]
           row == accrual[q.w]
           s == IF row.there THEN "install" ELSE "enter"
           k == [q EXCEPT !.pc = s]
           n == [k EXCEPT !.row = row]
           S == {"install", "enter"}
<1>1. RequestType /\ TableType /\ Rest BY DEF TypeInv, Rest
<1>2. q \in RequestRec /\ Shaped(q) /\ q.pc = "row" BY <1>1 DEF FetchRow, RequestType, At
<1>3. row \in RowType BY <1>1, <1>2 DEF Shaped, TableType
<1>4. hd' = [hd EXCEPT ![h] = n] BY Zenon DEF FetchRow
<1>5. s \in S OBVIOUS
<1> HIDE DEF q, row, s
<1>6. n \in RequestRec /\ n.pc = s /\ n.op = q.op /\ n.w = q.w /\ n.r = q.r /\ n.day = q.day
  BY <1>2, <1>3, <1>5 DEF RequestRec, Pcs, SubmitPcs
<1> HIDE DEF n
<1>7. Shaped(n) BY <1>2, <1>5, <1>6 DEF Shaped, SubmitPcs
<1>8. Becomes(h, n, S) BY <1>4, <1>5, <1>6, <1>7 DEF Becomes, q
<1>9. Rest' BY <1>1, RestSame DEF FetchRow
<1> QED BY <1>8, <1>9 DEF Moves

\* The durable row becomes the row in memory.
LEMMA InstallType ==
  ASSUME TypeInv, NEW h \in Handlers, Install(h)
  PROVE  Moves(h, {"enter"}) /\ Rest'
<1> DEFINE q == hd[h]
           k == [q EXCEPT !.pc = "enter"]
           n == [k EXCEPT !.row = NoRow]
<1>1. RequestType /\ MemoryType /\ Rest BY DEF TypeInv, Rest
<1>2. q \in RequestRec /\ Shaped(q) /\ q.pc = "install" BY <1>1 DEF Install, RequestType, At
<1>3. hd' = [hd EXCEPT ![h] = n] BY Zenon DEF Install
<1>4. worker' \in [Workers -> RowType]
  BY <1>1, <1>2 DEF Install, MemoryType, RequestRec
<1>5. Rest' BY <1>1, <1>4, RestWorker DEF Install
<1> HIDE DEF q
<1>6. n \in RequestRec /\ n.pc = "enter" /\ n.op = q.op /\ n.w = q.w /\ n.r = q.r /\ n.day = q.day
  BY <1>2, Values DEF RequestRec, Pcs, SubmitPcs
<1> HIDE DEF n
<1>7. Shaped(n) BY <1>2, <1>6 DEF Shaped, SubmitPcs
<1>8. Becomes(h, n, {"enter"}) BY <1>3, <1>6, <1>7 DEF Becomes, q
<1> QED BY <1>5, <1>8 DEF Moves

----------------------------------------------------------------------------
(* Types: what a submit ends with.                                          *)

\* applyPoolDailyBudget pays what is left of the day's budget at most.
LEMMA BudgetLeft ==
  ASSUME MemoryType, NEW payout \in Nat, NEW day \in Days
  PROVE  /\ Accrued(day) \in Nat /\ Capped(payout, day) \in Nat
         /\ Accrued(day) <= DayBudget => Accrued(day) + Capped(payout, day) <= DayBudget
<1>1. pay.units \in Nat BY DEF MemoryType
<1>2. Accrued(day) \in Nat BY <1>1 DEF Accrued
<1> QED BY <1>2, WorkManagerAssumption DEF Capped

\* applyPoolDailyBudget keeps the types of the counters.
LEMMA BudgetType ==
  ASSUME MemoryType, TableType, HistoryType, NEW payout \in Nat, NEW day \in Days,
         ApplyBudget(payout, day)
  PROVE  /\ pay' \in [day : Days, units : Nat]
         /\ payRow' \in [Days -> Nat] /\ spent' \in [Days -> Nat]
<1> DEFINE got == Capped(payout, day)
           sum == Accrued(day) + got
<1>1. got \in Nat /\ sum \in Nat BY BudgetLeft
<1>2. \/ UNCHANGED <<pay, payRow, spent>>
      \/ /\ pay' = [day |-> day, units |-> sum]
         /\ payRow' = [payRow EXCEPT ![day] = sum]
         /\ spent' = [spent EXCEPT ![day] = spent[day] + got]
  BY Zenon DEF ApplyBudget
<1> HIDE DEF got, sum
<1> QED BY <1>1, <1>2 DEF MemoryType, TableType, HistoryType

\* No persist takes up or leaves the step in which it holds m.mu.
PurgeSame == \A p \in Persists : ps'[p].pc = "purge" <=> ps[p].pc = "purge"

\* A persist that is started for a worker.
LEMMA WakeType ==
  ASSUME PersistType, NEW w \in Workers, NEW p \in Persists, PAt(p, "idle"),
         ps' = [ps EXCEPT ![p] = [Asleep EXCEPT !.pc = "snap", !.w = w]]
  PROVE  PersistType' /\ PurgeSame
<1> DEFINE n == [Asleep EXCEPT !.pc = "snap", !.w = w]
<1>1. n \in PersistRec /\ n.pc = "snap" /\ n.w = w BY Values DEF PersistRec, WhoType
<1>2. ps' = [ps EXCEPT ![p] = n] OBVIOUS
<1> HIDE DEF n
<1> QED BY <1>1, <1>2 DEF PersistType, PurgeSame, PAt

\* A credit starts a persist at most.
LEMMA SpawnType ==
  ASSUME PersistType, NEW w \in Workers, Spawn(w)
  PROVE  PersistType' /\ PurgeSame
<1>1. CASE UNCHANGED ps BY <1>1 DEF PersistType, PurgeSame
<1>2. CASE \E p \in Persists :
             ps[p].pc = "idle" /\ ps' = [ps EXCEPT ![p] = [Asleep EXCEPT !.pc = "snap", !.w = w]]
  BY <1>2, WakeType DEF PAt
<1> QED BY <1>1, <1>2, Zenon DEF Spawn

\* The credit of a worker keeps all types and ends the request.
LEMMA CreditType ==
  ASSUME Rest, NEW h \in Handlers, NEW w \in Workers, NEW a \in AddressType, NEW units \in Nat,
         Credit(h, w, a, units)
  PROVE  /\ worker' \in [Workers -> RowType] /\ earned' \in [Workers -> Nat]
         /\ revoked' \subseteq Workers /\ PersistType' /\ PurgeSame /\ Moves(h, {"idle"})
<1> DEFINE row == [units |-> worker[w].units + units, there |-> TRUE,
                   addr |-> IF worker[w].addr = NoAddress THEN a ELSE worker[w].addr]
<1>1. MemoryType /\ TableType /\ HistoryType /\ PersistType BY DEF Rest
<1>2. row \in RowType BY <1>1 DEF MemoryType, RowType, AddressType
<1>3. worker' = [worker EXCEPT ![w] = row] /\ earned' = [earned EXCEPT ![w] = earned[w] + units]
  BY Zenon DEF Credit
<1> HIDE DEF row
<1>4. worker' \in [Workers -> RowType] BY <1>1, <1>2, <1>3 DEF MemoryType
<1>5. earned' \in [Workers -> Nat] BY <1>1, <1>3 DEF HistoryType
<1>6. revoked' \subseteq Workers BY <1>1 DEF Credit, Untombed, TableType
<1>7. PersistType' /\ PurgeSame BY <1>1, SpawnType DEF Credit
<1>8. Moves(h, {"idle"}) BY EndsMoves DEF Credit
<1> QED BY <1>4, <1>5, <1>6, <1>7, <1>8

\* The first signed submit of an unbound worker goes on with m.mu held.
LEMMA BindMoves ==
  ASSUME RequestType, NEW h \in Handlers, hd[h].pc \in SubmitPcs, NEW u \in Nat,
         hd' = [hd EXCEPT ![h].pc = "bind", ![h].units = u]
  PROVE  Moves(h, {"bind"})
<1> DEFINE q == hd[h]
           k == [q EXCEPT !.pc = "bind"]
           n == [k EXCEPT !.units = u]
<1>1. q \in RequestRec /\ Shaped(q) BY DEF RequestType
<1>2. hd' = [hd EXCEPT ![h] = n] BY Zenon
<1>3. q.pc \in SubmitPcs OBVIOUS
<1> HIDE DEF q
<1>4. n \in RequestRec /\ n.pc = "bind" /\ n.op = q.op /\ n.w = q.w /\ n.r = q.r /\ n.day = q.day
  BY <1>1 DEF RequestRec, Pcs, SubmitPcs
<1> HIDE DEF n
<1>5. Shaped(n) BY <1>1, <1>3, <1>4 DEF Shaped, SubmitPcs
<1>6. Becomes(h, n, {"bind"}) BY <1>2, <1>4, <1>5 DEF Becomes, q
<1> QED BY <1>6 DEF Moves

\* How a submit ends: what it did to the locks.
Quiet == UNCHANGED <<mu, payoutLockMu, adm>> /\ PurgeSame
Outcome(h) ==
  \/ Moves(h, {"idle", "strike", "relay"}) /\ Quiet
  \/ Moves(h, {"bind"}) /\ mu' = h /\ UNCHANGED <<payoutLockMu, adm, ps>>

\* An accepted submit ends or goes on to the binding with m.mu held.
LEMMA AcceptType ==
  ASSUME TypeInv, NEW h \in Handlers, hd[h].pc \in SubmitPcs, NEW payout \in Payouts,
         NEW day \in Days, NEW leases \in [Ranges -> LeaseType], Accept(h, payout, day, leases)
  PROVE  Outcome(h) /\ Rest'
<1> DEFINE q == hd[h]
<1>1. /\ Rest /\ MemoryType /\ TableType /\ HistoryType /\ PersistType /\ AdminType /\ RequestType
      /\ payout \in Nat
  BY WorkManagerAssumption DEF TypeInv, Rest
<1>2. q.w \in Workers /\ q.a \in AddressType /\ q.r \in Ranges
  BY <1>1 DEF RequestType, RequestRec, Shaped, SubmitPcs
<1>3. /\ active' = [leases EXCEPT ![q.r] = NoLease]
      /\ paidFor' = [paidFor EXCEPT ![q.r] = paidFor[q.r] + 1]
      /\ ApplyBudget(payout, day)
      /\ UNCHANGED <<epoch, banned, next, payoutLockMu, adm, accrual, lockRow, banFile, today,
                     lifted>>
      /\ \/ /\ mu' = h
            /\ hd' = [hd EXCEPT ![h].pc = "bind", ![h].units = Capped(payout, day)]
            /\ UNCHANGED <<worker, earned, revoked, ps>>
         \/ Credit(h, q.w, q.a, Capped(payout, day)) /\ UNCHANGED mu
  BY Zenon DEF Accept
<1> HIDE DEF q
<1>4. active' \in [Ranges -> LeaseType] BY <1>3, Values
<1>5. paidFor' \in [Ranges -> Nat] BY <1>1, <1>2, <1>3 DEF HistoryType
<1>6. /\ pay' \in [day : Days, units : Nat]
      /\ payRow' \in [Days -> Nat] /\ spent' \in [Days -> Nat]
  BY <1>1, <1>3, BudgetType
<1>7. Capped(payout, day) \in Nat BY <1>1, BudgetLeft
<1>8. CASE /\ mu' = h
           /\ hd' = [hd EXCEPT ![h].pc = "bind", ![h].units = Capped(payout, day)]
           /\ UNCHANGED <<worker, earned, revoked, ps>>
  <2>1. Moves(h, {"bind"}) BY <1>1, <1>7, <1>8, BindMoves
  <2>2. Rest' BY <1>1, <1>3, <1>4, <1>5, <1>6, <1>8
    DEF Rest, MemoryType, TableType, HistoryType, PersistType, AdminType
  <2> QED BY <1>3, <1>8, <2>1, <2>2 DEF Outcome
<1>9. CASE Credit(h, q.w, q.a, Capped(payout, day)) /\ UNCHANGED mu
  <2>1. /\ worker' \in [Workers -> RowType] /\ earned' \in [Workers -> Nat]
        /\ revoked' \subseteq Workers /\ PersistType' /\ PurgeSame /\ Moves(h, {"idle"})
    BY <1>1, <1>2, <1>7, <1>9, CreditType
  <2>2. Moves(h, {"idle", "strike", "relay"}) BY <2>1 DEF Moves, Becomes
  <2>3. Rest' BY <1>1, <1>3, <1>4, <1>5, <1>6, <2>1
    DEF Rest, MemoryType, TableType, HistoryType, AdminType
  <2> QED BY <1>3, <1>9, <2>1, <2>2, <2>3 DEF Outcome, Quiet
<1> QED BY <1>3, <1>8, <1>9

\* A submit that fails a check ends or goes on to the strike.
LEMMA RejectType ==
  ASSUME TypeInv, NEW h \in Handlers, hd[h].pc \in SubmitPcs,
         NEW leases \in [Ranges -> LeaseType], Reject(h, leases)
  PROVE  Outcome(h) /\ Rest'
<1>1. Rest /\ MemoryType /\ RequestType BY DEF TypeInv, Rest
<1>2. hd[h].pc # "idle" BY DEF SubmitPcs
<1>3. hd[h].w \in Workers BY <1>1, <1>2 DEF RequestType, Shaped
<1>4. Moves(h, {"idle", "strike", "relay"})
  <2>1. CASE Ends(h) BY <2>1, EndsMoves
  <2>2. CASE Step(h, "strike") BY <1>1, <1>2, <2>2, StepMoves DEF Pcs
  <2> QED BY <2>1, <2>2 DEF Reject
<1>5. worker' \in [Workers -> RowType]
  BY <1>1, <1>3, ThereType DEF Reject, MemoryType
<1>6. Rest' BY <1>1, <1>5 DEF Reject, Rest, MemoryType, TableType, HistoryType, PersistType,
                              AdminType, tables, history
<1>7. Quiet BY DEF Reject, Quiet, PurgeSame, locks
<1> QED BY <1>4, <1>6, <1>7 DEF Outcome

\* A submit that is not the lessee's ends.
LEMMA RefuseType ==
  ASSUME TypeInv, NEW h \in Handlers, NEW leases \in [Ranges -> LeaseType], Refuse(h, leases)
  PROVE  Outcome(h) /\ Rest'
<1>1. Rest /\ MemoryType BY DEF TypeInv, Rest
<1>2. Moves(h, {"idle", "strike", "relay"}) BY EndsMoves DEF Refuse
<1>3. Rest' BY <1>1 DEF Refuse, Rest, MemoryType, TableType, HistoryType, PersistType,
                        AdminType, tables, history
<1>4. Quiet BY DEF Refuse, Quiet, PurgeSame, locks
<1> QED BY <1>2, <1>3, <1>4 DEF Outcome

\* The critical section of submit has one of its outcomes.
LEMMA EnterType ==
  ASSUME TypeInv, NEW h \in Handlers, Enter(h)
  PROVE  Outcome(h) /\ Rest'
<1> DEFINE q == hd[h]
<1>1. Rest /\ MemoryType /\ RequestType BY DEF TypeInv, Rest
<1>2. q.pc = "enter" BY DEF Enter, At
<1>3. q.pc \in SubmitPcs /\ q.pc # "idle" BY <1>2 DEF SubmitPcs
<1>4. q \in RequestRec /\ q.w \in Workers /\ q.day \in Days
  BY <1>1, <1>3 DEF RequestType, RequestRec, Shaped
<1>5. active \in [Ranges -> LeaseType] BY <1>1 DEF MemoryType
<1>6. [active EXCEPT ![q.r] = NoLease] \in [Ranges -> LeaseType] BY <1>5, Values
<1>7. CASE Refuse(h, active) BY <1>5, <1>7, RefuseType
<1>8. CASE Refuse(h, [active EXCEPT ![q.r] = NoLease]) BY <1>6, <1>8, RefuseType
<1>9. CASE Reject(h, active) BY <1>3, <1>5, <1>9, RejectType
<1>10. CASE AutoBan(h)
  <2>1. Moves(h, {"idle", "strike", "relay"})
    BY <1>1, <1>3, <1>10, StepMoves DEF AutoBan, Pcs, SubmitPcs
  <2>2. Rest' BY <1>1, <1>4, <1>6, <1>10
    DEF AutoBan, Rest, MemoryType, TableType, HistoryType, PersistType, AdminType, tables, history
  <2>3. Quiet BY <1>10 DEF AutoBan, Quiet, PurgeSame, locks
  <2> QED BY <2>1, <2>2, <2>3 DEF Outcome
<1>11. CASE \E payout \in Payouts : Accept(h, payout, q.day, active)
  BY <1>3, <1>4, <1>5, <1>11, AcceptType
<1>12. CASE /\ active' = Consumed(q.r) /\ Step(h, "relay")
            /\ UNCHANGED <<worker, epoch, banned, pay, next, locks, ps, adm, tables, today, history>>
  <2>1. Moves(h, {"idle", "strike", "relay"})
    BY <1>1, <1>3, <1>12, StepMoves DEF Pcs, SubmitPcs
  <2>2. active' \in [Ranges -> LeaseType] BY <1>6, <1>12 DEF Consumed
  <2>3. Rest' BY <1>1, <1>12, <2>2
    DEF Rest, MemoryType, TableType, HistoryType, PersistType, AdminType, tables, history
  <2>4. Quiet BY <1>12 DEF Quiet, PurgeSame, locks
  <2> QED BY <2>1, <2>3, <2>4 DEF Outcome
<1> QED BY <1>7, <1>8, <1>9, <1>10, <1>11, <1>12, Zenon DEF Enter

\* The lease that comes back after a failed relay is a lease.
LEMMA RestoredType ==
  ASSUME MemoryType, RequestType, NEW h \in Handlers, At(h, "relay"), NEW live \in BOOLEAN
  PROVE  Restored(hd[h], live) \in [Ranges -> LeaseType]
<1>1. hd[h].w \in Workers BY DEF RequestType, Shaped, At
<1>2. [w |-> hd[h].w, live |-> TRUE] \in LeaseType BY <1>1 DEF LeaseType, WhoType
<1> QED BY <1>2 DEF Restored, MemoryType

\* A failed relay has one of the outcomes of a submit.
LEMMA RelayFailsType ==
  ASSUME TypeInv, NEW h \in Handlers, NEW live \in BOOLEAN, RelayFails(h, live)
  PROVE  Outcome(h) /\ Rest'
<1> DEFINE leases == Restored(hd[h], live)
<1>1. MemoryType /\ RequestType /\ today \in Days BY DEF TypeInv, HistoryType
<1>2. At(h, "relay") BY DEF RelayFails
<1>3. hd[h].pc \in SubmitPcs BY <1>2 DEF At, SubmitPcs
<1>4. leases \in [Ranges -> LeaseType] BY <1>1, <1>2, RestoredType
<1>5. Reject(h, leases) \/ \E payout \in Payouts : Accept(h, payout, today, leases)
  BY Zenon DEF RelayFails
<1> HIDE DEF leases
<1> QED BY <1>1, <1>3, <1>4, <1>5, RejectType, AcceptType

\* A relay that was taken has one of the outcomes of a submit.
LEMMA RelayDoneType ==
  ASSUME TypeInv, NEW h \in Handlers, RelayDone(h)
  PROVE  Outcome(h) /\ Rest'
<1>1. active \in [Ranges -> LeaseType] /\ today \in Days BY DEF TypeInv, HistoryType, MemoryType
<1>2. hd[h].pc \in SubmitPcs BY DEF RelayDone, At, SubmitPcs
<1>3. Reject(h, active) \/ \E payout \in Payouts : Accept(h, payout, today, active)
  BY Zenon DEF RelayDone
<1> QED BY <1>1, <1>2, <1>3, RejectType, AcceptType

\* The binding of the first signed submit ends the request.
LEMMA BindType ==
  ASSUME TypeInv, NEW h \in Handlers, Bind(h)
  PROVE  Moves(h, {"idle"}) /\ Rest' /\ PurgeSame
<1> DEFINE q == hd[h]
<1>1. Rest /\ TableType /\ RequestType BY DEF TypeInv, Rest
<1>2. q.w \in Workers /\ q.a \in AddressType /\ q.units \in Nat
  BY <1>1 DEF Bind, RequestType, RequestRec, Shaped, At
<1>3. Credit(h, q.w, q.a, q.units) /\ lockRow' = Locked(q.w, q.a) BY Zenon DEF Bind
<1>4. /\ worker' \in [Workers -> RowType] /\ earned' \in [Workers -> Nat]
      /\ revoked' \subseteq Workers /\ PersistType' /\ PurgeSame /\ Moves(h, {"idle"})
  BY <1>1, <1>2, <1>3, CreditType
<1>5. lockRow' \in [Workers -> AddressType] BY <1>1, <1>2, <1>3, LockedType
<1>6. UNCHANGED <<active, epoch, banned, pay, next, adm, accrual, payRow, banFile, today, spent,
                  paidFor, lifted>>
  BY Zenon DEF Bind
<1>7. Rest' BY <1>1, <1>4, <1>5, <1>6 DEF Rest, MemoryType, TableType, HistoryType, AdminType
<1> QED BY <1>4, <1>7

----------------------------------------------------------------------------
(* Types: persists, the admin, time and crashes.                            *)

\* Persist p becomes n.
PersistMoves(p, S) ==
  \E n \in PersistRec : /\ ps' = [ps EXCEPT ![p] = n] /\ n.pc \in S
                        /\ n.pc # "idle" => n.w \in Workers

\* A persist that moves keeps the types of persists.
LEMMA PersistMoved ==
  ASSUME PersistType, NEW p \in Persists, NEW S, PersistMoves(p, S)
  PROVE  PersistType'
  BY DEF PersistType, PersistMoves

\* A persist that ends moves to idle.
LEMMA PEndsMoves ==
  ASSUME NEW p \in Persists, NEW S, "idle" \in S, PEnds(p)
  PROVE  PersistMoves(p, S)
<1>1. ps' = [ps EXCEPT ![p] = Asleep] BY Zenon DEF PEnds
<1> QED BY <1>1, Values DEF PersistMoves

\* A persist that only changes its step moves.
LEMMA PStepMoves ==
  ASSUME PersistType, NEW p \in Persists, ps[p].pc # "idle", NEW S,
         NEW s \in S \cap {"drop", "upsert", "epoch", "purge"}, PStep(p, s)
  PROVE  PersistMoves(p, S)
<1> DEFINE q == ps[p]
           n == [q EXCEPT !.pc = s]
<1>1. q \in PersistRec /\ q.w \in Workers BY DEF PersistType
<1>2. ps' = [ps EXCEPT ![p] = n] BY Zenon DEF PStep
<1> HIDE DEF q
<1>3. n \in PersistRec /\ n.pc = s /\ n.w = q.w BY <1>1 DEF PersistRec
<1> QED BY <1>1, <1>2, <1>3 DEF PersistMoves

\* A step of a persist changes no request and no row in memory.
RestOfPersist == MemoryType /\ TableType /\ HistoryType /\ AdminType

\* A step of a persist that writes nothing.
LEMMA RestOfPersistSame ==
  ASSUME RestOfPersist, UNCHANGED <<memory, next, adm, tables, today, history>>
  PROVE  RestOfPersist'
  BY DEF RestOfPersist, MemoryType, TableType, HistoryType, AdminType, memory, tables, history

\* A step of a persist that writes the durable row.
LEMMA RestOfPersistRow ==
  ASSUME RestOfPersist, accrual' \in [Workers -> RowType], revoked' \subseteq Workers,
         UNCHANGED <<memory, next, adm, lockRow, payRow, banFile, today, history>>
  PROVE  RestOfPersist'
  BY DEF RestOfPersist, MemoryType, TableType, HistoryType, AdminType, memory, tables, history

\* What a persist does to m.mu, and to its own step.
PersistOutcome(p) ==
  \/ PersistMoves(p, {"idle", "revoked", "drop", "upsert", "epoch"}) /\ ~PAt(p, "purge") /\ UNCHANGED mu
  \/ PersistMoves(p, {"purge"}) /\ MuFree /\ mu' = p
  \/ PersistMoves(p, {"idle"}) /\ PAt(p, "purge") /\ mu' = NoOne

\* A step of a persist keeps all types; it takes or gives back m.mu or neither.
LEMMA PersistStepType ==
  ASSUME TypeInv, NEW p \in Persists, Persist(p)
  PROVE  RestOfPersist' /\ PersistOutcome(p) /\ UNCHANGED <<hd, adm, payoutLockMu>>
<1> DEFINE w == ps[p].w
           S == {"idle", "revoked", "drop", "upsert", "epoch"}
<1>1. RestOfPersist /\ MemoryType /\ TableType /\ PersistType BY DEF TypeInv, RestOfPersist
<1>2. ps[p].pc # "idle" => w \in Workers BY <1>1 DEF PersistType
<1>3. UNCHANGED <<hd, adm, payoutLockMu>>
  BY Zenon DEF Persist, Snapshot, CheckTomb, Drop, Upsert, UpsertFails, CheckEpoch, Purge, locks
<1>4. CASE Snapshot(p)
  <2>1. CASE PEnds(p) BY <1>1, <1>4, <2>1, PEndsMoves, RestOfPersistSame
    DEF Snapshot, PersistOutcome, PAt, locks
  <2>2. CASE ps' = [ps EXCEPT ![p].pc = "revoked", ![p].row = worker[w], ![p].epoch = epoch[w]]
    <3> DEFINE q == ps[p]
               k == [q EXCEPT !.pc = "revoked"]
               l == [k EXCEPT !.row = worker[w]]
               n == [l EXCEPT !.epoch = epoch[w]]
    <3>1. q.pc = "snap" /\ q \in PersistRec BY <1>1, <1>4 DEF Snapshot, PAt, PersistType
    <3>2. w \in Workers /\ worker[w] \in RowType /\ epoch[w] \in Nat
      BY <1>1, <1>2, <3>1 DEF MemoryType
    <3>3. ps' = [ps EXCEPT ![p] = n] BY <2>2, Zenon
    <3>4. k \in PersistRec /\ k.w = w BY <3>1 DEF PersistRec
    <3> HIDE DEF k
    <3>5. l \in PersistRec /\ l.w = w /\ l.pc = k.pc BY <3>2, <3>4 DEF PersistRec
    <3> HIDE DEF l
    <3>6. n \in PersistRec /\ n.w = w /\ n.pc = l.pc BY <3>2, <3>5 DEF PersistRec
    <3>7. k.pc = "revoked" BY <3>1 DEF k, PersistRec
    <3>8. PersistMoves(p, S) BY <3>2, <3>3, <3>5, <3>6, <3>7 DEF PersistMoves
    <3> QED BY <1>1, <1>3, <1>4, <3>1, <3>8, RestOfPersistSame
      DEF Snapshot, PersistOutcome, PAt, locks
  <2> QED BY <1>4, <2>1, <2>2, Zenon DEF Snapshot
<1>5. CASE CheckTomb(p)
  <2> DEFINE s == IF w \in revoked THEN "drop" ELSE "upsert"
  <2>1. PStep(p, s) BY <1>5, Zenon DEF CheckTomb
  <2>2. s \in {"drop", "upsert"} OBVIOUS
  <2> HIDE DEF s
  <2>3. ps[p].pc = "revoked" BY <1>5 DEF CheckTomb, PAt
  <2>4. PersistMoves(p, S) BY <1>1, <2>1, <2>2, <2>3, PStepMoves
  <2> QED BY <1>1, <1>3, <1>5, <2>3, <2>4, RestOfPersistSame
    DEF CheckTomb, PersistOutcome, PAt, locks
<1>6. CASE Drop(p)
  <2>1. ps[p].pc = "drop" BY <1>6 DEF Drop, PAt
  <2>2. PersistMoves(p, S) BY <1>6, PEndsMoves DEF Drop
  <2>3. accrual' \in [Workers -> RowType] /\ revoked' \subseteq Workers
    BY <1>1, <1>6, Values DEF Drop, TableType
  <2> QED BY <1>1, <1>3, <1>6, <2>1, <2>2, <2>3, RestOfPersistRow DEF Drop, PersistOutcome, PAt, locks
<1>7. CASE Upsert(p)
  <2>1. ps[p].pc = "upsert" BY <1>7 DEF Upsert, PAt
  <2>2. PersistMoves(p, S)
    <3>1. CASE PEnds(p) BY <3>1, PEndsMoves
    <3>2. CASE PStep(p, "epoch") BY <1>1, <2>1, <3>2, PStepMoves
    <3> QED BY <1>7, <3>1, <3>2, Zenon DEF Upsert
  <2>3. ps[p].row \in RowType BY <1>1 DEF PersistType, PersistRec
  <2>4. accrual' \in [Workers -> RowType] /\ revoked' \subseteq Workers
    BY <1>1, <1>7, <2>3, Values DEF Upsert, TableType
  <2> QED BY <1>1, <1>3, <1>7, <2>1, <2>2, <2>4, RestOfPersistRow
    DEF Upsert, PersistOutcome, PAt, locks
<1>8. CASE UpsertFails(p)
  <2>1. ps[p].pc = "upsert" BY <1>8 DEF UpsertFails, PAt
  <2>2. PersistMoves(p, S) BY <1>8, PEndsMoves DEF UpsertFails
  <2> QED BY <1>1, <1>3, <1>8, <2>1, <2>2, RestOfPersistSame
    DEF UpsertFails, PersistOutcome, PAt, locks
<1>9. CASE CheckEpoch(p)
  <2>1. ps[p].pc = "epoch" /\ MuFree BY <1>9 DEF CheckEpoch, PAt
  <2>2. accrual' \in [Workers -> RowType] /\ revoked' \subseteq Workers
    BY <1>1, <1>2, <1>9, <2>1 DEF CheckEpoch, TableType
  <2>3. RestOfPersist' BY <1>1, <1>3, <1>9, <2>2, RestOfPersistRow DEF CheckEpoch
  <2>4. CASE PEnds(p) /\ UNCHANGED mu
    <3>1. PersistMoves(p, S) BY <2>4, PEndsMoves
    <3> QED BY <1>3, <2>1, <2>3, <2>4, <3>1 DEF PersistOutcome, PAt
  <2>5. CASE PStep(p, "purge") /\ mu' = p
    <3>1. PersistMoves(p, {"purge"}) BY <1>1, <2>1, <2>5, PStepMoves
    <3> QED BY <1>3, <2>1, <2>3, <2>5, <3>1 DEF PersistOutcome
  <2> QED BY <1>9, <2>4, <2>5, Zenon DEF CheckEpoch
<1>10. CASE Purge(p)
  <2>1. PersistMoves(p, {"idle"}) BY <1>10, PEndsMoves DEF Purge
  <2>2. accrual' \in [Workers -> RowType] /\ revoked' \subseteq Workers
    BY <1>1, <1>10, Values DEF Purge, TableType
  <2>3. RestOfPersist' BY <1>1, <1>3, <1>10, <2>2, RestOfPersistRow DEF Purge
  <2> QED BY <1>3, <1>10, <2>1, <2>3 DEF Purge, PersistOutcome
<1> QED BY <1>4, <1>5, <1>6, <1>7, <1>8, <1>9, <1>10 DEF Persist

\* The flush starts a persist.
LEMMA FlushType ==
  ASSUME TypeInv, NEW w \in Workers, Flush(w)
  PROVE  Rest' /\ Quiet /\ UNCHANGED hd
<1>1. RestOfPersist /\ PersistType BY DEF TypeInv, RestOfPersist
<1>2. UNCHANGED <<memory, next, locks, hd, adm, tables, today, history>> BY Zenon DEF Flush
<1>3. RestOfPersist' BY <1>1, <1>2, RestOfPersistSame
<1>4. PersistType' /\ PurgeSame BY <1>1, WakeType DEF Flush
<1> QED BY <1>2, <1>3, <1>4 DEF Rest, RestOfPersist, Quiet, locks

\* The first half of a revoke keeps all types and holds m.mu.
LEMMA RevokeType ==
  ASSUME TypeInv, NEW w \in Workers, NEW ban \in Revokes, Revoke(w, ban)
  PROVE  /\ Rest' /\ UNCHANGED <<hd, ps, payoutLockMu>>
         /\ MuFree /\ mu' = Admin /\ adm'.pc = "delete" /\ adm'.w = w
<1> DEFINE leases == IF worker[w].there
                     THEN [r \in Ranges |-> IF active[r].w = w THEN NoLease ELSE active[r]]
                     ELSE active
<1>1. Rest /\ MemoryType /\ TableType /\ HistoryType BY DEF TypeInv, Rest
<1>2. /\ worker' = [worker EXCEPT ![w] = NoRow] /\ active' = leases
      /\ epoch' = [epoch EXCEPT ![w] = epoch[w] + 1] /\ earned' = [earned EXCEPT ![w] = 0]
      /\ revoked' = revoked \cup {w} /\ mu' = Admin /\ MuFree
      /\ adm' = [pc |-> "delete", w |-> w, ban |-> ban]
      /\ UNCHANGED <<banned, pay, next, payoutLockMu, hd, ps, accrual, lockRow, payRow, banFile,
                     today, spent, paidFor, lifted>>
  BY Zenon DEF Revoke
<1>3. leases \in [Ranges -> LeaseType] BY <1>1, Values DEF MemoryType
<1> HIDE DEF leases
<1>4. MemoryType'
  <2>1. worker' \in [Workers -> RowType] BY <1>1, <1>2, Values DEF MemoryType
  <2>2. epoch' \in [Workers -> Nat] BY <1>1, <1>2 DEF MemoryType
  <2> QED BY <1>1, <1>2, <1>3, <2>1, <2>2 DEF MemoryType
<1>5. TableType' BY <1>1, <1>2 DEF TableType
<1>6. HistoryType' BY <1>1, <1>2 DEF HistoryType
<1>7. AdminType' /\ adm'.pc = "delete" /\ adm'.w = w
  BY <1>2, WorkManagerAssumption DEF AdminType, AdminRec, WhoType
<1>8. PersistType' BY <1>1, <1>2 DEF Rest, PersistType
<1> QED BY <1>2, <1>4, <1>5, <1>6, <1>7, <1>8 DEF Rest

\* The second half of a revoke keeps all types and gives m.mu back.
LEMMA RevokeRowType ==
  ASSUME TypeInv, RevokeRow
  PROVE  /\ Rest' /\ UNCHANGED <<hd, ps, payoutLockMu>>
         /\ adm.pc = "delete" /\ adm'.pc = "idle" /\ mu' = NoOne
<1> DEFINE ban == IF adm.ban THEN {adm.w} ELSE {}
<1>1. Rest /\ AdminType BY DEF TypeInv, Rest
<1>2. /\ adm.pc = "delete" /\ accrual' = [accrual EXCEPT ![adm.w] = NoRow]
      /\ banned' = banned \cup ban /\ banFile' = banFile \cup ban /\ lifted' = lifted \ ban
      /\ mu' = NoOne /\ adm' = Still
      /\ UNCHANGED <<active, worker, epoch, pay, next, payoutLockMu, hd, ps, revoked, lockRow,
                     payRow, today, earned, spent, paidFor>>
  BY Zenon DEF RevokeRow
<1>3. ban \subseteq Workers BY <1>1, <1>2 DEF AdminType
<1> HIDE DEF ban
<1>4. Rest' BY <1>1, <1>2, <1>3, Values
  DEF Rest, MemoryType, TableType, HistoryType, PersistType, AdminType
<1> QED BY <1>2, <1>4, Values

\* A prune keeps all types.
LEMMA PruneType ==
  ASSUME TypeInv, NEW w \in Workers, NEW ignore \in IgnorePayout, Prune(w, ignore)
  PROVE  Rest' /\ Quiet /\ UNCHANGED hd
<1>1. Rest BY DEF TypeInv, Rest
<1>2. Rest' BY <1>1, Values
  DEF Prune, Rest, MemoryType, TableType, HistoryType, PersistType, AdminType, tables, procs
<1> QED BY <1>2 DEF Prune, Quiet, PurgeSame, locks, procs

\* A lease that expires keeps all types.
LEMMA ExpireType ==
  ASSUME TypeInv, NEW r \in Ranges, Expire(r)
  PROVE  Rest' /\ Quiet /\ UNCHANGED hd
<1> DEFINE lease == [active[r] EXCEPT !.live = FALSE]
<1>1. Rest /\ MemoryType BY DEF TypeInv, Rest
<1>2. lease \in LeaseType BY <1>1 DEF MemoryType, LeaseType
<1>3. active' = [active EXCEPT ![r] = lease] BY Zenon DEF Expire
<1>4. UNCHANGED <<worker, epoch, banned, pay, next, locks, procs, tables, today, history>>
  BY Zenon DEF Expire
<1> HIDE DEF lease
<1>5. active' \in [Ranges -> LeaseType] /\ next' \in 0..MaxRanges
  BY <1>1, <1>2, <1>3, <1>4 DEF MemoryType
<1>6. Rest' BY <1>1, <1>4, <1>5, RestLeases DEF procs
<1> QED BY <1>4, <1>6 DEF Quiet, PurgeSame, locks, procs

\* Midnight keeps all types.
LEMMA NewDayType ==
  ASSUME TypeInv, NewDay
  PROVE  Rest' /\ Quiet /\ UNCHANGED hd
<1>1. Rest BY DEF TypeInv, Rest
<1>2. today' \in Days BY WorkManagerAssumption DEF NewDay, TypeInv, HistoryType, Days
<1>3. Rest' BY <1>1, <1>2
  DEF NewDay, Rest, MemoryType, TableType, HistoryType, PersistType, AdminType, memory, tables,
      history, procs
<1> QED BY <1>3 DEF NewDay, Quiet, PurgeSame, locks, procs

\* A restart finds everything of its type, nobody at work and both locks free.
LEMMA CrashType ==
  ASSUME TypeInv, Crash
  PROVE  TypeInv'
<1>1. MemoryType /\ TableType /\ HistoryType BY DEF TypeInv
<1>2. \A w \in Workers : Loaded(w) \in RowType
  BY <1>1, Values, WithAddressType DEF Loaded, TableType
<1>3. /\ active' = [r \in Ranges |-> NoLease] /\ worker' = [w \in Workers |-> Loaded(w)]
      /\ epoch' = [w \in Workers |-> 0] /\ banned' = banFile
      /\ pay' = [day |-> today, units |-> payRow[today]] /\ UNCHANGED next
  BY Zenon DEF Crash
<1>4. MemoryType'
  <2>1. active' \in [Ranges -> LeaseType] BY <1>3, Values
  <2>2. worker' \in [Workers -> RowType] BY <1>2, <1>3
  <2>3. epoch' \in [Workers -> Nat] /\ banned' \subseteq Workers BY <1>1, <1>3 DEF TableType
  <2>4. pay' \in [day : Days, units : Nat] BY <1>1, <1>3 DEF TableType, HistoryType
  <2> QED BY <1>1, <1>3, <2>1, <2>2, <2>3, <2>4 DEF MemoryType
<1>5. TableType' /\ HistoryType' BY <1>1 DEF Crash, TableType, HistoryType, tables, history
<1>6. /\ hd' = [h \in Handlers |-> Idle] /\ ps' = [p \in Persists |-> Asleep] /\ adm' = Still
      /\ mu' = NoOne /\ payoutLockMu' = NoOne
  BY Zenon DEF Crash
<1>7. RequestType' BY <1>6, Values DEF RequestType
<1>8. PersistType' BY <1>6, Values DEF PersistType
<1>9. AdminType' BY <1>6, Values DEF AdminType
<1>10. LockOK' BY <1>6, Values, WorkManagerAssumption DEF LockOK, At, PAt, NoOne, Admin
<1> QED BY <1>4, <1>5, <1>7, <1>8, <1>9, <1>10 DEF TypeInv

----------------------------------------------------------------------------
(* Types: the locks and the theorem.                                        *)

\* A request that moves keeps the types of requests.
LEMMA MovedRequest ==
  ASSUME RequestType, NEW h \in Handlers, NEW S, Moves(h, S)
  PROVE  RequestType'
  BY DEF RequestType, Moves, Becomes

\* A request that moves between steps without a lock.
LEMMA LockFreeMove ==
  ASSUME LockOK, RequestType, NEW h \in Handlers, NEW S, "bind" \notin S, "clear" \notin S,
         hd[h].pc \notin {"bind", "clear"}, Moves(h, S), Quiet
  PROVE  LockOK'
<1> PICK n : Becomes(h, n, S) BY DEF Moves
<1>1. hd' = [hd EXCEPT ![h] = n] /\ n.pc \notin {"bind", "clear"} BY DEF Becomes
<1>2. \A g \in Handlers : /\ hd'[g].pc = "bind" <=> hd[g].pc = "bind"
                          /\ hd'[g].pc = "clear" <=> hd[g].pc = "clear"
  BY <1>1 DEF RequestType
<1> QED BY <1>2 DEF LockOK, Quiet, PurgeSame, At, PAt

\* A step of nobody, in which no request moves.
LEMMA LockFreeStep ==
  ASSUME LockOK, UNCHANGED hd, Quiet
  PROVE  LockOK'
  BY DEF LockOK, Quiet, PurgeSame, At, PAt

\* A step of request h preserves the type invariant.
LEMMA HandlerType ==
  ASSUME TypeInv, NEW h \in Handlers, Binding(h) \/ Request(h)
  PROVE  TypeInv'
<1>1. RequestType /\ LockOK BY DEF TypeInv
<1> USE WorkManagerAssumption
<1>2. ASSUME NEW S, "bind" \notin S, "clear" \notin S, hd[h].pc \notin {"bind", "clear"},
             Moves(h, S), Quiet, Rest'
      PROVE  TypeInv'
  BY <1>1, <1>2, MovedRequest, LockFreeMove DEF TypeInv, Rest
<1>3. CASE Lookup(h)
  <2>1. hd[h].pc = "lookup" /\ Quiet BY <1>3 DEF Lookup, At, Quiet, PurgeSame, locks
  <2> QED BY <1>2, <1>3, <2>1, LookupType
<1>4. CASE Hydrate(h)
  <2>1. hd[h].pc = "hydrate" /\ Quiet BY <1>4 DEF Hydrate, At, Quiet, PurgeSame, locks
  <2> QED BY <1>2, <1>4, <2>1, HydrateType
<1>5. CASE Note(h)
  <2>1. hd[h].pc = "note" /\ Quiet BY <1>5 DEF Note, At, Quiet, PurgeSame, locks
  <2> QED BY <1>2, <1>5, <2>1, NoteType
<1>6. CASE Lock(h)
  <2>1. hd[h].pc = "lock" /\ Quiet BY <1>6 DEF Lock, At, Quiet, PurgeSame, locks
  <2> QED BY <1>2, <1>6, <2>1, LockType
<1>7. CASE Unbind(h)
  <2>1. /\ hd[h].pc = "unbind" /\ payoutLockMu = NoOne /\ payoutLockMu' = h
        /\ UNCHANGED <<mu, ps, adm>>
    BY <1>7 DEF Unbind, At
  <2>2. Moves(h, {"clear"}) /\ Rest' BY <1>7, UnbindType
  <2>3. PICK n : Becomes(h, n, {"clear"}) BY <2>2 DEF Moves
  <2>4. \A g \in Handlers : /\ hd'[g].pc = "bind" <=> hd[g].pc = "bind"
                            /\ hd'[g].pc = "clear" <=> hd[g].pc = "clear" \/ g = h
    BY <1>1, <2>1, <2>3 DEF RequestType, Becomes
  <2>5. LockOK' BY <1>1, <2>1, <2>4 DEF LockOK, At, PAt
  <2> QED BY <1>1, <2>2, <2>5, MovedRequest DEF TypeInv, Rest
<1>8. CASE Clear(h)
  <2>1. hd[h].pc = "clear" /\ payoutLockMu' = NoOne /\ UNCHANGED <<mu, ps, adm>>
    BY <1>8 DEF Clear, At
  <2>2. Moves(h, {"idle"}) /\ Rest' BY <1>8, ClearType
  <2>3. PICK n : Becomes(h, n, {"idle"}) BY <2>2 DEF Moves
  <2>4. \A g \in Handlers : /\ hd'[g].pc = "bind" <=> hd[g].pc = "bind"
                            /\ hd'[g].pc = "clear" <=> hd[g].pc = "clear" /\ g # h
    BY <1>1, <2>1, <2>3 DEF RequestType, Becomes
  <2>5. LockOK' BY <1>1, <2>1, <2>4 DEF LockOK, At, PAt
  <2> QED BY <1>1, <2>2, <2>5, MovedRequest DEF TypeInv, Rest
<1>9. CASE Bind(h)
  <2>1. hd[h].pc = "bind" /\ mu' = NoOne /\ UNCHANGED <<payoutLockMu, adm>>
    BY <1>9 DEF Bind, At
  <2>2. Moves(h, {"idle"}) /\ Rest' /\ PurgeSame BY <1>9, BindType
  <2>3. PICK n : Becomes(h, n, {"idle"}) BY <2>2 DEF Moves
  <2>4. \A g \in Handlers : /\ hd'[g].pc = "bind" <=> hd[g].pc = "bind" /\ g # h
                            /\ hd'[g].pc = "clear" <=> hd[g].pc = "clear"
    BY <1>1, <2>1, <2>3 DEF RequestType, Becomes
  <2>5. mu = h BY <1>1, <2>1 DEF LockOK, At
  <2>6. LockOK' BY <1>1, <2>1, <2>2, <2>4, <2>5 DEF LockOK, At, PAt, PurgeSame, NoOne, Admin
  <2> QED BY <1>1, <2>2, <2>6, MovedRequest DEF TypeInv, Rest
<1>10. CASE Gate(h)
  <2>1. hd[h].pc = "claim" /\ Quiet BY <1>10 DEF Gate, At, Quiet, PurgeSame, locks
  <2> QED BY <1>2, <1>10, <2>1, GateType
<1>11. CASE Lease(h)
  <2>1. hd[h].pc = "lease" /\ Quiet BY <1>11 DEF Lease, At, Quiet, PurgeSame, locks
  <2> QED BY <1>2, <1>11, <2>1, LeaseStepType
<1>12. CASE Stamp(h)
  <2>1. hd[h].pc = "stamp" /\ Quiet BY <1>12 DEF Stamp, At, Quiet, PurgeSame, locks
  <2> QED BY <1>2, <1>12, <2>1, StampType
<1>13. CASE Strike(h)
  <2>1. hd[h].pc = "strike" /\ Quiet BY <1>13 DEF Strike, At, Quiet, PurgeSame, locks
  <2> QED BY <1>2, <1>13, <2>1, StrikeType
<1>14. CASE FetchTomb(h)
  <2>1. hd[h].pc = "tomb" /\ Quiet BY <1>14 DEF FetchTomb, At, Quiet, PurgeSame, locks
  <2> QED BY <1>2, <1>14, <2>1, FetchTombType
<1>15. CASE FetchRow(h)
  <2>1. hd[h].pc = "row" /\ Quiet BY <1>15 DEF FetchRow, At, Quiet, PurgeSame, locks
  <2> QED BY <1>2, <1>15, <2>1, FetchRowType
<1>16. CASE Install(h)
  <2>1. hd[h].pc = "install" /\ Quiet BY <1>16 DEF Install, At, Quiet, PurgeSame, locks
  <2> QED BY <1>2, <1>16, <2>1, InstallType
<1>17. ASSUME hd[h].pc \in {"enter", "relay"}, MuFree, Outcome(h), Rest' PROVE TypeInv'
  <2>1. CASE Moves(h, {"idle", "strike", "relay"}) /\ Quiet BY <1>2, <1>17, <2>1
  <2>2. CASE Moves(h, {"bind"}) /\ mu' = h /\ UNCHANGED <<payoutLockMu, adm, ps>>
    <3>1. PICK n : Becomes(h, n, {"bind"}) BY <2>2 DEF Moves
    <3>2. \A g \in Handlers : /\ hd'[g].pc = "bind" <=> hd[g].pc = "bind" \/ g = h
                              /\ hd'[g].pc = "clear" <=> hd[g].pc = "clear"
      BY <1>1, <1>17, <3>1 DEF RequestType, Becomes
    <3>3. LockOK' BY <1>1, <1>17, <2>2, <3>2 DEF LockOK, At, PAt, MuFree, NoOne, Admin
    <3> QED BY <1>1, <1>17, <2>2, <3>3, MovedRequest DEF TypeInv, Rest
  <2> QED BY <1>17, <2>1, <2>2 DEF Outcome
<1>18. CASE Enter(h)
  <2>1. hd[h].pc = "enter" /\ MuFree BY <1>18 DEF Enter, At
  <2> QED BY <1>17, <1>18, <2>1, EnterType
<1>19. CASE RelayDone(h)
  <2>1. hd[h].pc = "relay" /\ MuFree BY <1>19 DEF RelayDone, At
  <2> QED BY <1>17, <1>19, <2>1, RelayDoneType
<1>20. ASSUME NEW live \in BOOLEAN, RelayFails(h, live) PROVE TypeInv'
  <2>1. hd[h].pc = "relay" /\ MuFree BY <1>20 DEF RelayFails, At
  <2> QED BY <1>17, <1>20, <2>1, RelayFailsType
<1> QED BY <1>3, <1>4, <1>5, <1>6, <1>7, <1>8, <1>9, <1>10, <1>11, <1>12, <1>13, <1>14, <1>15,
           <1>16, <1>18, <1>19, <1>20 DEF Binding, Request

\* The start of a request.
LEMMA StartType ==
  ASSUME TypeInv, NEW h \in Handlers, NEW w \in Workers,
         \/ StartUnbind(h, w)
         \/ \E a \in AddressType : \/ StartClaim(h, w, a)
                                   \/ \E r \in Ranges : StartSubmit(h, w, a, r)
  PROVE  TypeInv'
<1>1. RequestType /\ LockOK BY DEF TypeInv
<1>2. ASSUME At(h, "idle"), Moves(h, {"idle", "lookup", "claim", "unbind"}), Quiet, Rest'
      PROVE  TypeInv'
  BY <1>1, <1>2, MovedRequest, LockFreeMove DEF TypeInv, Rest, At
<1>3. CASE StartUnbind(h, w)
  <2>1. Quiet BY <1>3 DEF StartUnbind, Look, Quiet, PurgeSame, locks
  <2> QED BY <1>2, <1>3, <2>1, StartUnbindType
<1>4. ASSUME NEW a \in AddressType, StartClaim(h, w, a) PROVE TypeInv'
  <2>1. Quiet BY <1>4 DEF StartClaim, Look, Quiet, PurgeSame, locks
  <2> QED BY <1>2, <1>4, <2>1, StartClaimType
<1>5. ASSUME NEW a \in AddressType, NEW r \in Ranges, StartSubmit(h, w, a, r) PROVE TypeInv'
  <2>1. hd[h].pc = "idle" /\ Quiet BY <1>5 DEF StartSubmit, At, Quiet, PurgeSame, locks
  <2>2. PICK n \in RequestRec : /\ hd' = [hd EXCEPT ![h] = n] /\ Shaped(n)
                                /\ n.pc \in {"enter", "tomb"}
    BY <1>5, StartSubmitType
  <2>3. Rest' BY <1>5, StartSubmitType
  <2>4. RequestType' BY <1>1, <2>2 DEF RequestType
  <2>5. \A g \in Handlers : /\ hd'[g].pc = "bind" <=> hd[g].pc = "bind"
                            /\ hd'[g].pc = "clear" <=> hd[g].pc = "clear"
    BY <1>1, <2>1, <2>2 DEF RequestType
  <2>6. LockOK' BY <1>1, <2>1, <2>5 DEF LockOK, Quiet, PurgeSame, At, PAt
  <2> QED BY <2>3, <2>4, <2>6 DEF TypeInv, Rest
<1> QED BY <1>3, <1>4, <1>5

\* A step of a persist.
LEMMA PersistTypeStep ==
  ASSUME TypeInv, NEW p \in Persists, Persist(p)
  PROVE  TypeInv'
<1>1. RequestType /\ PersistType /\ LockOK BY DEF TypeInv
<1>2. RestOfPersist' /\ PersistOutcome(p) /\ UNCHANGED <<hd, adm, payoutLockMu>>
  BY PersistStepType
<1>3. PersistType' BY <1>1, <1>2, PersistMoved DEF PersistOutcome
<1>4. RequestType' BY <1>1, <1>2 DEF RequestType
<1>5. LockOK'
  <2>1. CASE /\ PersistMoves(p, {"idle", "revoked", "drop", "upsert", "epoch"})
             /\ ~PAt(p, "purge") /\ UNCHANGED mu
    <3>1. PurgeSame BY <1>1, <2>1 DEF PersistMoves, PersistType, PurgeSame, PAt
    <3> QED BY <1>1, <1>2, <2>1, <3>1, LockFreeStep DEF Quiet
  <2>2. CASE PersistMoves(p, {"purge"}) /\ MuFree /\ mu' = p
    <3>1. \A g \in Persists : ps'[g].pc = "purge" <=> ps[g].pc = "purge" \/ g = p
      BY <1>1, <2>2 DEF PersistMoves, PersistType
    <3> QED BY <1>1, <1>2, <2>2, <3>1, WorkManagerAssumption DEF LockOK, At, PAt, MuFree, NoOne, Admin
  <2>3. CASE PersistMoves(p, {"idle"}) /\ PAt(p, "purge") /\ mu' = NoOne
    <3>1. \A g \in Persists : ps'[g].pc = "purge" <=> ps[g].pc = "purge" /\ g # p
      BY <1>1, <2>3 DEF PersistMoves, PersistType
    <3>2. mu = p BY <1>1, <2>3 DEF LockOK
    <3> QED BY <1>1, <1>2, <2>3, <3>1, <3>2, WorkManagerAssumption DEF LockOK, At, PAt, NoOne, Admin
  <2> QED BY <1>2, <2>1, <2>2, <2>3 DEF PersistOutcome
<1> QED BY <1>2, <1>3, <1>4, <1>5 DEF TypeInv, RestOfPersist

\* The steps of the admin, of time and of the environment.
LEMMA OtherType ==
  ASSUME TypeInv,
         \/ \E w \in Workers : \/ Flush(w)
                               \/ \E ban \in Revokes : Revoke(w, ban)
                               \/ \E ignore \in IgnorePayout : Prune(w, ignore)
         \/ \E r \in Ranges : Expire(r)
         \/ RevokeRow \/ NewDay \/ Crash
  PROVE  TypeInv'
<1>1. RequestType /\ LockOK BY DEF TypeInv
<1>2. ASSUME Rest', Quiet, UNCHANGED hd PROVE TypeInv'
  BY <1>1, <1>2, LockFreeStep DEF TypeInv, Rest, RequestType
<1>3. ASSUME NEW w \in Workers, NEW ban \in Revokes, Revoke(w, ban) PROVE TypeInv'
  <2>1. /\ Rest' /\ UNCHANGED <<hd, ps, payoutLockMu>>
        /\ MuFree /\ mu' = Admin /\ adm'.pc = "delete"
    BY <1>3, RevokeType
  <2>2. LockOK' BY <1>1, <2>1, WorkManagerAssumption DEF LockOK, At, PAt, MuFree, NoOne, Admin
  <2>3. RequestType' BY <1>1, <2>1 DEF RequestType
  <2> QED BY <2>1, <2>2, <2>3 DEF TypeInv, Rest
<1>4. CASE RevokeRow
  <2>1. /\ Rest' /\ UNCHANGED <<hd, ps, payoutLockMu>>
        /\ adm.pc = "delete" /\ adm'.pc = "idle" /\ mu' = NoOne
    BY <1>4, RevokeRowType
  <2>2. LockOK' BY <1>1, <2>1, WorkManagerAssumption DEF LockOK, At, PAt, NoOne, Admin
  <2>3. RequestType' BY <1>1, <2>1 DEF RequestType
  <2> QED BY <2>1, <2>2, <2>3 DEF TypeInv, Rest
<1> QED BY <1>2, <1>3, <1>4, FlushType, PruneType, ExpireType, NewDayType, CrashType

\* Every step preserves the type invariant.
LEMMA NextType == TypeInv /\ [Next]_vars => TypeInv'
<1> SUFFICES ASSUME TypeInv, [Next]_vars PROVE TypeInv' OBVIOUS
<1>1. CASE UNCHANGED vars
  BY <1>1 DEF TypeInv, MemoryType, TableType, HistoryType, PersistType, AdminType, RequestType,
     LockOK, At, PAt, vars, memory, locks, procs, tables, history
<1>2. CASE Next
  BY <1>2, HandlerType, StartType, PersistTypeStep, OtherType DEF Next, AddressType
<1> QED BY <1>1, <1>2

\* The type invariant with the shape of requests and the holders of both locks.
THEOREM TypeInductive == Spec => []TypeInv
  BY InitType, NextType, PTL DEF Spec

\* Type correctness, in particular: a mutex of the work manager is held only by
\* the request, the persist or the admin that is in a step that holds it.
THEOREM TypeCorrect == Spec => []TypeOK
<1>1. TypeInv => TypeOK
  BY WorkManagerAssumption DEF TypeInv, MemoryType, TableType, LockOK, TypeOK, LeaseType, WhoType, AddressType
<1> QED BY <1>1, TypeInductive, PTL

----------------------------------------------------------------------------
(* The durable counter.                                                     *)

\* Requests, their starts and the environment leave worker_accrual alone.
LEMMA AccrualSame ==
  ASSUME Next, accrual' # accrual
  PROVE  RevokeRow \/ \E p \in Persists : Drop(p) \/ Upsert(p) \/ Purge(p)
<1>1. ASSUME NEW h \in Handlers, Binding(h) PROVE accrual' = accrual
  BY <1>1 DEF Binding, Lookup, Hydrate, Note, Lock, Unbind, Clear, Bind, tables
<1>2. ASSUME NEW h \in Handlers, Request(h) PROVE accrual' = accrual
  BY <1>2 DEF Request, Gate, Lease, Stamp, Strike, FetchTomb, FetchRow, Install, Enter, RelayDone,
              RelayFails, Refuse, Reject, AutoBan, Accept, tables
<1>3. ASSUME NEW h \in Handlers, NEW w \in Workers,
             \/ StartUnbind(h, w)
             \/ \E a \in Addresses \cup {NoAddress} :
                  StartClaim(h, w, a) \/ \E r \in Ranges : StartSubmit(h, w, a, r)
      PROVE  accrual' = accrual
  BY <1>3 DEF StartUnbind, StartClaim, StartSubmit, Look, tables
<1>4. ASSUME NEW p \in Persists, Persist(p) PROVE accrual' = accrual \/ Drop(p) \/ Upsert(p) \/ Purge(p)
  BY <1>4 DEF Persist, Snapshot, CheckTomb, UpsertFails, CheckEpoch, tables
<1>5. ASSUME \/ \E w \in Workers : \/ Flush(w)
                                   \/ \E ban \in Revokes : Revoke(w, ban)
                                   \/ \E ignore \in IgnorePayout : Prune(w, ignore)
             \/ \E r \in Ranges : Expire(r)
             \/ NewDay \/ Crash
      PROVE  accrual' = accrual
  BY <1>5 DEF Flush, Revoke, Prune, Expire, NewDay, Crash, tables
<1> QED BY <1>1, <1>2, <1>3, <1>4, <1>5 DEF Next

\* A row is only replaced by one that is not behind it.
LEMMA NextNoFallBack == TypeInv /\ Next => NoFallBack
<1> SUFFICES ASSUME TypeInv, Next, NEW w \in Workers, accrual'[w].there
             PROVE  accrual'[w].units >= accrual[w].units
  BY DEF NoFallBack
<1>1. TableType /\ PersistType BY DEF TypeInv
<1>2. accrual[w].units \in Nat BY <1>1 DEF TableType, RowType
<1>3. CASE accrual'[w] = accrual[w] BY <1>2, <1>3
<1>4. CASE accrual'[w] = NoRow BY <1>4, Values
<1>5. CASE \E p \in Persists : Upsert(p)
  <2>1. PICK p \in Persists : Upsert(p) BY <1>5
  <2>2. \/ accrual' = [accrual EXCEPT ![ps[p].w] = NoRow]
        \/ accrual' = accrual
        \/ /\ NotBehind(ps[p].row, accrual[ps[p].w])
           /\ accrual' = [accrual EXCEPT ![ps[p].w] = ps[p].row]
    BY <2>1, Zenon DEF Upsert
  <2> QED BY <1>1, <1>3, <1>4, <2>2 DEF TableType, NotBehind
<1>6. CASE RevokeRow \/ \E p \in Persists : Drop(p) \/ Purge(p)
  BY <1>1, <1>3, <1>4, <1>6 DEF RevokeRow, Drop, Purge, TableType
<1> QED BY <1>3, <1>5, <1>6, AccrualSame

\* Whatever order two persists of a worker are scheduled in, and whatever the
\* admin does between them, an older snapshot never replaces a newer one.
THEOREM DurableKept == Spec => DurableNeverFallsBack
<1>1. TypeInv /\ [Next]_vars => [NoFallBack]_vars BY NextNoFallBack
<1> QED BY TypeInductive, <1>1, PTL DEF Spec, DurableNeverFallsBack

----------------------------------------------------------------------------
(* Bans.                                                                    *)

\* A ban of the file that nothing lifted is in force in memory and has its
\* tombstone; so has the worker whose revoke is under way.
BanInv ==
  /\ \A w \in banFile \ lifted : w \in banned /\ w \in revoked
  /\ adm.pc = "delete" => adm.w \in revoked

\* A step that changes no table, ban or credit keeps BanInv.
LEMMA BanSame ==
  ASSUME BanInv, UNCHANGED <<banFile, lifted, adm>>, banned \subseteq banned', revoked \subseteq revoked'
  PROVE  BanInv'
  BY DEF BanInv

\* New credit lifts no tombstone that matters.
LEMMA BanCredit ==
  ASSUME BanInv, NEW w, adm.pc # "delete", revoked' = Untombed(w),
         UNCHANGED <<banFile, lifted, adm, banned>>
  PROVE  BanInv'
  BY DEF BanInv, Untombed

\* Every step keeps BanInv.
LEMMA NextBan == TypeInv /\ BanInv /\ [Next]_vars => BanInv'
<1> SUFFICES ASSUME TypeInv, BanInv, [Next]_vars PROVE BanInv' OBVIOUS
<1>0. LockOK /\ TableType /\ AdminType BY DEF TypeInv
<1>1. CASE UNCHANGED vars BY <1>1, BanSame DEF vars, memory, procs, tables, history
<1>2. ASSUME NEW h \in Handlers, Binding(h) PROVE BanInv'
  <2>1. CASE Bind(h)
    <3>1. mu = h BY <1>0, <2>1 DEF LockOK, Bind
    <3>2. adm.pc # "delete" BY <1>0, <3>1, WorkManagerAssumption DEF LockOK
    <3> QED BY <2>1, <3>2, BanCredit DEF Bind, Credit
  <2>2. CASE Lookup(h) \/ Hydrate(h) \/ Note(h) \/ Lock(h) \/ Unbind(h) \/ Clear(h)
    BY <2>2, BanSame DEF Lookup, Hydrate, Note, Lock, Unbind, Clear, memory, tables, history
  <2> QED BY <1>2, <2>1, <2>2 DEF Binding
<1>3. ASSUME NEW h \in Handlers, NEW payout, NEW day, NEW leases, MuFree,
             Accept(h, payout, day, leases)
      PROVE  BanInv'
  <2>1. adm.pc # "delete" BY <1>0, <1>3 DEF LockOK, MuFree, NoOne, Admin
  <2>2. \/ UNCHANGED revoked
        \/ revoked' = Untombed(hd[h].w)
    BY <1>3, Zenon DEF Accept, Credit
  <2>3. UNCHANGED <<banFile, lifted, adm, banned>> BY <1>3, Zenon DEF Accept
  <2> QED BY <2>1, <2>2, <2>3, BanSame, BanCredit
<1>4. ASSUME NEW h \in Handlers, Request(h) PROVE BanInv'
  <2>1. CASE Strike(h) BY <2>1 DEF Strike, BanInv, tables
  <2>2. CASE Gate(h) \/ Lease(h) \/ Stamp(h) \/ FetchTomb(h) \/ FetchRow(h) \/ Install(h)
    BY <2>2, BanSame DEF Gate, Lease, Stamp, FetchTomb, FetchRow, Install, memory, tables, history
  <2>3. ASSUME NEW leases, Refuse(h, leases) \/ Reject(h, leases) PROVE BanInv'
    BY <2>3, BanSame DEF Refuse, Reject, tables, history
  <2>4. CASE Enter(h)
    <3>1. CASE AutoBan(h) BY <3>1, BanSame DEF AutoBan, tables, history
    <3>2. CASE /\ active' = Consumed(hd[h].r) /\ Step(h, "relay")
               /\ UNCHANGED <<worker, epoch, banned, pay, next, locks, ps, adm, tables, today, history>>
      BY <3>2, BanSame DEF tables, history
    <3> QED BY <1>3, <2>3, <2>4, <3>1, <3>2, Zenon DEF Enter
  <2>5. CASE RelayDone(h) BY <1>3, <2>3, <2>5, Zenon DEF RelayDone
  <2>6. ASSUME NEW live \in BOOLEAN, RelayFails(h, live) PROVE BanInv'
    BY <1>3, <2>3, <2>6, Zenon DEF RelayFails
  <2> QED BY <1>4, <2>1, <2>2, <2>4, <2>5, <2>6 DEF Request
<1>5. ASSUME NEW h \in Handlers, NEW w \in Workers,
             \/ StartUnbind(h, w)
             \/ \E a \in Addresses \cup {NoAddress} :
                  StartClaim(h, w, a) \/ \E r \in Ranges : StartSubmit(h, w, a, r)
      PROVE  BanInv'
  BY <1>5, BanSame DEF StartUnbind, StartClaim, StartSubmit, Look, memory, tables, history
<1>6. ASSUME NEW p \in Persists, Persist(p) PROVE BanInv'
  BY <1>6, BanSame DEF Persist, Snapshot, CheckTomb, Drop, Upsert, UpsertFails, CheckEpoch, Purge,
                       memory, tables, history
<1>7. ASSUME NEW w \in Workers, NEW ban \in Revokes, Revoke(w, ban) PROVE BanInv'
  <2>1. adm'.w = w BY <1>7, RevokeType
  <2> QED BY <1>7, <2>1 DEF Revoke, BanInv
<1>8. CASE RevokeRow
  <2> DEFINE ban == IF adm.ban THEN {adm.w} ELSE {}
  <2>1. /\ adm.pc = "delete" /\ banned' = banned \cup ban /\ banFile' = banFile \cup ban
        /\ lifted' = lifted \ ban /\ adm' = Still /\ UNCHANGED revoked
    BY <1>8, Zenon DEF RevokeRow
  <2>2. \A w \in ban : w = adm.w OBVIOUS
  <2> HIDE DEF ban
  <2> QED BY <2>1, <2>2, Values DEF BanInv
<1>9. ASSUME NEW w \in Workers, NEW ignore \in IgnorePayout, Prune(w, ignore) PROVE BanInv'
  BY <1>9 DEF Prune, BanInv, tables, procs
<1>10. CASE Crash BY <1>10, Values DEF Crash, BanInv, tables, history
<1>11. CASE \/ \E w \in Workers : Flush(w)
            \/ \E r \in Ranges : Expire(r)
            \/ NewDay
  BY <1>11, BanSame DEF Flush, Expire, NewDay, memory, procs, tables, history
<1> QED BY <1>1, <1>2, <1>4, <1>5, <1>6, <1>7, <1>8, <1>9, <1>10, <1>11 DEF Next

\* Nothing that was under way brings back the balance of a worker banned for good.
THEOREM BanHolds == Spec => []BannedStaysRevoked
<1>1. Init => BanInv BY Values DEF Init, BanInv
<1>2. TypeInv /\ BanInv => BannedStaysRevoked
  <2> SUFFICES ASSUME TypeInv, BanInv, NEW w \in banFile \ lifted PROVE Loadable(w) <= earned[w]
    BY DEF BannedStaysRevoked
  <2>1. w \in Workers /\ w \in revoked /\ earned[w] \in Nat
    BY DEF TypeInv, TableType, HistoryType, BanInv
  <2>2. CASE lockRow[w] # NoAddress
    <3>1. Loaded(w) = WithAddress(NoRow, lockRow[w]) BY <2>1, <2>2 DEF Loaded
    <3>2. Loaded(w).units = 0 BY <3>1, Values DEF WithAddress, RowType
    <3> QED BY <2>1, <3>2 DEF Loadable
  <2>3. CASE lockRow[w] = NoAddress
    <3>1. Loaded(w) = NoRow BY <2>1, <2>3 DEF Loaded
    <3>2. Loaded(w).units = 0 BY <3>1, Values
    <3> QED BY <2>1, <3>2 DEF Loadable
  <2> QED BY <2>2, <2>3
<1> QED BY <1>1, <1>2, NextBan, TypeInductive, PTL DEF Spec

----------------------------------------------------------------------------
(* Ranges.                                                                  *)

\* A range is either leased, or in the hands of one request that relays its
\* block, or neither; in the first two cases nobody was credited for it yet.
PaidInv ==
  /\ \A r \in Ranges : paidFor[r] <= 1
  /\ \A r \in Ranges : active[r] # NoLease => paidFor[r] = 0 /\ r <= next
  /\ \A r \in Ranges : r > next => paidFor[r] = 0
  /\ \A h \in Handlers : At(h, "relay") =>
       paidFor[hd[h].r] = 0 /\ active[hd[h].r] = NoLease /\ hd[h].r <= next
  /\ \A g, h \in Handlers : At(g, "relay") /\ At(h, "relay") /\ hd[g].r = hd[h].r => g = h

\* Nobody is credited, no range gets a lease, no request starts to relay.
PaidCalm ==
  /\ UNCHANGED <<paidFor, next>>
  /\ \A r \in Ranges : active'[r] # NoLease => active[r] # NoLease
  /\ \A h \in Handlers : hd'[h].pc = "relay" => hd[h].pc = "relay" /\ hd'[h].r = hd[h].r

\* A calm step keeps PaidInv.
LEMMA PaidSame ==
  ASSUME PaidInv, RequestType, PaidCalm
  PROVE  PaidInv'
<1>1. \A h \in Handlers : hd[h].pc = "relay" => hd[h].r \in Ranges BY DEF RequestType, Shaped, SubmitPcs
<1> QED BY <1>1 DEF PaidInv, PaidCalm, At

\* A request that moves to a step other than the relay.
LEMMA MoveCalm ==
  ASSUME RequestType, NEW h \in Handlers, NEW S, "relay" \notin S, Moves(h, S)
  PROVE  \A g \in Handlers : hd'[g].pc = "relay" =>
           g # h /\ hd[g].pc = "relay" /\ hd'[g].r = hd[g].r
  BY DEF RequestType, Moves, Becomes

\* A lease of a worker is a lease.
LEMMA LeaseOfWorker ==
  ASSUME MemoryType, NEW r \in Ranges
  PROVE  /\ active[r].w \in Workers => active[r] # NoLease
         /\ active[r].live => active[r] # NoLease
<1>1. NoLease.w \notin Workers /\ NoLease.live = FALSE BY WorkManagerAssumption DEF NoLease
<1> QED BY <1>1

\* The credit for range r, which request h holds or which is leased.
LEMMA PaidAccept ==
  ASSUME PaidInv, TypeInv, NEW h \in Handlers, hd[h].pc \in SubmitPcs, NEW payout \in Payouts,
         NEW day \in Days, NEW leases \in [Ranges -> LeaseType], Accept(h, payout, day, leases),
         \A r \in Ranges \ {hd[h].r} : leases[r] = active[r],
         At(h, "relay") \/ active[hd[h].r] # NoLease
  PROVE  PaidInv'
<1> DEFINE x == hd[h].r
<1>1. RequestType /\ MemoryType /\ HistoryType BY DEF TypeInv
<1>2. x \in Ranges BY <1>1 DEF RequestType, Shaped
<1>3. /\ active' = [leases EXCEPT ![x] = NoLease]
      /\ paidFor' = [paidFor EXCEPT ![x] = paidFor[x] + 1] /\ UNCHANGED next
  BY Zenon DEF Accept
<1>4. Outcome(h) BY AcceptType
<1>5. \A g \in Handlers : hd'[g].pc = "relay" =>
           g # h /\ hd[g].pc = "relay" /\ hd'[g].r = hd[g].r
  <2>1. hd' = [hd EXCEPT ![h].pc = "bind", ![h].units = Capped(payout, day)] \/ Ends(h)
    BY Zenon DEF Accept, Credit
  <2>2. CASE Ends(h)
    <3>1. Moves(h, {"idle"}) BY <2>2, EndsMoves
    <3> QED BY <1>1, <3>1, MoveCalm
  <2>3. CASE hd' = [hd EXCEPT ![h].pc = "bind", ![h].units = Capped(payout, day)]
    <3>1. payout \in Nat BY WorkManagerAssumption
    <3>2. Capped(payout, day) \in Nat BY <1>1, <3>1, BudgetLeft
    <3>3. Moves(h, {"bind"}) BY <1>1, <2>3, <3>2, BindMoves
    <3> QED BY <1>1, <3>3, MoveCalm
  <2> QED BY <2>1, <2>2, <2>3
<1>6. paidFor[x] = 0 /\ x <= next BY <1>2 DEF PaidInv, At
<1>7. \A g \in Handlers \ {h} : At(g, "relay") => hd[g].r # x
  BY <1>2 DEF PaidInv, At
<1>8. \A g \in Handlers : hd[g].pc = "relay" => hd[g].r \in Ranges BY <1>1 DEF RequestType, Shaped, SubmitPcs
<1>9. \A r \in Ranges : /\ paidFor[r] \in Nat
                        /\ paidFor'[r] = IF r = x THEN 1 ELSE paidFor[r]
                        /\ active'[r] = IF r = x THEN NoLease ELSE active[r]
  BY <1>1, <1>2, <1>3, <1>6 DEF HistoryType, MemoryType
<1>10. \A r \in Ranges : r \in Nat BY DEF Ranges
<1>11. next \in Nat BY <1>1 DEF MemoryType
<1> HIDE DEF x
<1>12. /\ \A r \in Ranges : paidFor'[r] <= 1
       /\ \A r \in Ranges : active'[r] # NoLease => paidFor'[r] = 0 /\ r <= next'
       /\ \A r \in Ranges : r > next' => paidFor'[r] = 0
  BY <1>2, <1>3, <1>6, <1>9, <1>10, <1>11 DEF PaidInv
<1>13. \A g \in Handlers : hd'[g].pc = "relay" =>
         paidFor'[hd'[g].r] = 0 /\ active'[hd'[g].r] = NoLease /\ hd'[g].r <= next'
  BY <1>3, <1>5, <1>7, <1>8, <1>9 DEF PaidInv, At
<1>14. \A f, g \in Handlers : hd'[f].pc = "relay" /\ hd'[g].pc = "relay" /\ hd'[f].r = hd'[g].r => f = g
  BY <1>5 DEF PaidInv, At
<1> QED BY <1>12, <1>13, <1>14 DEF PaidInv, At

\* A submit that ends without credit, after which the lease of its range may be
\* back when it held the range.
LEMMA PaidReject ==
  ASSUME PaidInv, TypeInv, NEW h \in Handlers, hd[h].pc \in SubmitPcs,
         NEW leases \in [Ranges -> LeaseType], Reject(h, leases) \/ Refuse(h, leases),
         \A r \in Ranges : leases[r] # NoLease => active[r] # NoLease \/ (At(h, "relay") /\ r = hd[h].r)
  PROVE  PaidInv'
<1>1. RequestType /\ MemoryType BY DEF TypeInv
<1>2. active' = leases /\ UNCHANGED <<paidFor, next>> BY DEF Reject, Refuse, history
<1>3. \A g \in Handlers : hd'[g].pc = "relay" =>
           g # h /\ hd[g].pc = "relay" /\ hd'[g].r = hd[g].r
  <2>1. CASE Ends(h)
    <3>1. Moves(h, {"idle"}) BY <2>1, EndsMoves
    <3> QED BY <1>1, <3>1, MoveCalm
  <2>2. CASE Step(h, "strike")
    <3>1. Moves(h, {"strike"}) BY <1>1, <2>2, StepMoves DEF Pcs, SubmitPcs
    <3> QED BY <1>1, <3>1, MoveCalm
  <2> QED BY <2>1, <2>2 DEF Reject, Refuse
<1>4. \A g \in Handlers : hd[g].pc = "relay" => hd[g].r \in Ranges BY <1>1 DEF RequestType, Shaped, SubmitPcs
<1>5. \A g \in Handlers : hd'[g].pc = "relay" =>
         paidFor'[hd'[g].r] = 0 /\ active'[hd'[g].r] = NoLease /\ hd'[g].r <= next'
  BY <1>2, <1>3, <1>4 DEF PaidInv, At
<1>6. \A f, g \in Handlers : hd'[f].pc = "relay" /\ hd'[g].pc = "relay" /\ hd'[f].r = hd'[g].r => f = g
  BY <1>3 DEF PaidInv, At
<1>7. /\ \A r \in Ranges : paidFor'[r] <= 1
      /\ \A r \in Ranges : active'[r] # NoLease => paidFor'[r] = 0 /\ r <= next'
      /\ \A r \in Ranges : r > next' => paidFor'[r] = 0
  BY <1>2, <1>4 DEF PaidInv, At
<1> QED BY <1>5, <1>6, <1>7 DEF PaidInv, At

\* A lease goes to an expired or a new range, neither of them credited.
LEMMA PaidLease ==
  ASSUME PaidInv, TypeInv, NEW h \in Handlers, Lease(h)
  PROVE  PaidInv'
<1> DEFINE mine == [w |-> hd[h].w, live |-> TRUE]
<1>1. RequestType /\ MemoryType BY DEF TypeInv
<1>2. Moves(h, {"idle", "stamp", "note"}) BY LeaseStepType
<1>3. \A g \in Handlers : hd'[g].pc = "relay" =>
           g # h /\ hd[g].pc = "relay" /\ hd'[g].r = hd[g].r
  BY <1>1, <1>2, MoveCalm
<1>4. UNCHANGED paidFor BY DEF Lease, history
<1>5. CASE \E r \in Ranges : /\ active[r] # NoLease
                             /\ active' = [active EXCEPT ![r] = mine] /\ UNCHANGED next
  BY <1>1, <1>3, <1>4, <1>5, PaidSame DEF PaidCalm, MemoryType
<1>6. CASE /\ next < MaxRanges /\ next' = next + 1
           /\ active' = [Purged EXCEPT ![next + 1] = mine]
  <2>1. next \in Nat /\ next + 1 \in Ranges BY <1>1, <1>6, WorkManagerAssumption DEF MemoryType, Ranges
  <2>2. \A r \in Ranges \ {next + 1} : active'[r] # NoLease => active[r] # NoLease
    BY <1>1, <1>6, PurgedType DEF Purged, MemoryType
  <2>3. \A r \in Ranges : r \in Nat BY DEF Ranges
  <2>4. \A g \in Handlers : hd[g].pc = "relay" => hd[g].r \in Ranges /\ hd[g].r # next + 1
    BY <1>1, <2>1, <2>3 DEF RequestType, Shaped, SubmitPcs, PaidInv, At
  <2>5. /\ \A r \in Ranges : paidFor'[r] <= 1
        /\ \A r \in Ranges : active'[r] # NoLease => paidFor'[r] = 0 /\ r <= next'
        /\ \A r \in Ranges : r > next' => paidFor'[r] = 0
    BY <1>4, <1>6, <2>1, <2>2, <2>3 DEF PaidInv
  <2>6. \A g \in Handlers : hd'[g].pc = "relay" =>
          paidFor'[hd'[g].r] = 0 /\ active'[hd'[g].r] = NoLease /\ hd'[g].r <= next'
    BY <1>3, <1>4, <1>6, <2>1, <2>2, <2>3, <2>4 DEF PaidInv, At
  <2>7. \A f, g \in Handlers : hd'[f].pc = "relay" /\ hd'[g].pc = "relay" /\ hd'[f].r = hd'[g].r => f = g
    BY <1>3 DEF PaidInv, At
  <2> QED BY <2>5, <2>6, <2>7 DEF PaidInv, At
<1>7. CASE UNCHANGED <<active, next>>
  BY <1>1, <1>3, <1>4, <1>7, PaidSame DEF PaidCalm
<1> QED BY <1>5, <1>6, <1>7, Zenon DEF Lease

\* The lease is consumed when the relay starts: from here on the request alone
\* can be credited for the range, or give it back.
LEMMA PaidConsume ==
  ASSUME PaidInv, TypeInv, NEW h \in Handlers, At(h, "enter"), active[hd[h].r] # NoLease,
         active' = Consumed(hd[h].r), Step(h, "relay"), UNCHANGED <<next, history>>
  PROVE  PaidInv'
<1> DEFINE x == hd[h].r
<1>1. RequestType /\ MemoryType BY DEF TypeInv
<1>2. x \in Ranges BY <1>1 DEF RequestType, Shaped, SubmitPcs, At
<1>3. hd[h].pc = "enter" BY DEF At
<1>4. Moves(h, {"relay"}) BY <1>1, <1>3, StepMoves DEF Pcs, SubmitPcs
<1>5. \A g \in Handlers : IF g = h THEN hd'[g].pc = "relay" /\ hd'[g].r = x ELSE hd'[g] = hd[g]
  BY <1>1, <1>4 DEF Moves, Becomes, RequestType
<1>6. active' = [active EXCEPT ![x] = NoLease] BY DEF Consumed
<1>7. \A r \in Ranges : active'[r] = IF r = x THEN NoLease ELSE active[r]
  BY <1>1, <1>6 DEF MemoryType
<1>8. \A g \in Handlers : hd[g].pc = "relay" => hd[g].r \in Ranges BY <1>1 DEF RequestType, Shaped, SubmitPcs
<1>9. UNCHANGED <<next, paidFor>> BY DEF history
<1>10. paidFor[x] = 0 /\ x <= next BY <1>2 DEF PaidInv
<1>11. \A g \in Handlers : hd[g].pc = "relay" => hd[g].r # x BY DEF PaidInv, At
<1> HIDE DEF x
<1>12. /\ \A r \in Ranges : paidFor'[r] <= 1
       /\ \A r \in Ranges : active'[r] # NoLease => paidFor'[r] = 0 /\ r <= next'
       /\ \A r \in Ranges : r > next' => paidFor'[r] = 0
  BY <1>7, <1>9 DEF PaidInv
<1>13. \A g \in Handlers : hd'[g].pc = "relay" =>
         paidFor'[hd'[g].r] = 0 /\ active'[hd'[g].r] = NoLease /\ hd'[g].r <= next'
  BY <1>2, <1>5, <1>7, <1>8, <1>9, <1>10 DEF PaidInv, At
<1>14. \A f, g \in Handlers : hd'[f].pc = "relay" /\ hd'[g].pc = "relay" /\ hd'[f].r = hd'[g].r => f = g
  BY <1>5, <1>11 DEF PaidInv, At
<1> QED BY <1>12, <1>13, <1>14 DEF PaidInv, At

\* The critical section of submit keeps PaidInv.
LEMMA PaidEnter ==
  ASSUME PaidInv, TypeInv, NEW h \in Handlers, Enter(h)
  PROVE  PaidInv'
<1> DEFINE q == hd[h]
<1>1. RequestType /\ MemoryType BY DEF TypeInv
<1>2. At(h, "enter") BY DEF Enter
<1>3. q.pc \in SubmitPcs BY <1>2 DEF At, SubmitPcs
<1>4. q.r \in Ranges /\ q.day \in Days BY <1>1, <1>3 DEF RequestType, RequestRec, Shaped
<1>5. active \in [Ranges -> LeaseType] BY <1>1 DEF MemoryType
<1>6. [active EXCEPT ![q.r] = NoLease] \in [Ranges -> LeaseType] BY <1>5, Values
<1>7. CASE Refuse(h, active) BY <1>3, <1>5, <1>7, PaidReject
<1>8. CASE Refuse(h, [active EXCEPT ![q.r] = NoLease])
  <2>1. \A r \in Ranges : [active EXCEPT ![q.r] = NoLease][r] # NoLease => active[r] # NoLease BY <1>5
  <2> QED BY <1>3, <1>6, <1>8, <2>1, PaidReject
<1>9. CASE Reject(h, active) BY <1>3, <1>5, <1>9, PaidReject
<1>10. CASE AutoBan(h)
  <2>1. Moves(h, {"strike"}) BY <1>1, <1>3, <1>10, StepMoves DEF AutoBan, Pcs, SubmitPcs
  <2>2. active' = [active EXCEPT ![q.r] = NoLease] /\ UNCHANGED <<next, paidFor>>
    BY <1>10 DEF AutoBan, history
  <2> QED BY <1>1, <1>5, <2>1, <2>2, MoveCalm, PaidSame DEF PaidCalm
<1>11. CASE active[q.r].live /\ \E payout \in Payouts : Accept(h, payout, q.day, active)
  BY <1>1, <1>3, <1>4, <1>5, <1>11, LeaseOfWorker, PaidAccept
<1>12. CASE /\ active[q.r].live /\ active' = Consumed(q.r) /\ Step(h, "relay")
            /\ UNCHANGED <<next, history>>
  BY <1>1, <1>2, <1>4, <1>12, LeaseOfWorker, PaidConsume
<1> QED BY <1>7, <1>8, <1>9, <1>10, <1>11, <1>12, Zenon DEF Enter

\* The end of a relay keeps PaidInv.
LEMMA PaidRelay ==
  ASSUME PaidInv, TypeInv, NEW h \in Handlers,
         RelayDone(h) \/ \E live \in BOOLEAN : RelayFails(h, live)
  PROVE  PaidInv'
<1>1. RequestType /\ MemoryType /\ today \in Days BY DEF TypeInv, HistoryType
<1>2. At(h, "relay") BY DEF RelayDone, RelayFails
<1>3. hd[h].pc \in SubmitPcs BY <1>2 DEF At, SubmitPcs
<1>4. active \in [Ranges -> LeaseType] BY <1>1 DEF MemoryType
<1>5. CASE RelayDone(h)
  <2>1. Reject(h, active) \/ \E payout \in Payouts : Accept(h, payout, today, active)
    BY <1>5, Zenon DEF RelayDone
  <2> QED BY <1>1, <1>2, <1>3, <1>4, <2>1, PaidReject, PaidAccept
<1>6. ASSUME NEW live \in BOOLEAN, RelayFails(h, live) PROVE PaidInv'
  <2> DEFINE leases == Restored(hd[h], live)
  <2>1. leases \in [Ranges -> LeaseType] BY <1>1, <1>2, RestoredType
  <2>2. \A r \in Ranges \ {hd[h].r} : leases[r] = active[r] BY <1>4 DEF Restored
  <2>3. Reject(h, leases) \/ \E payout \in Payouts : Accept(h, payout, today, leases)
    BY <1>6, Zenon DEF RelayFails
  <2> HIDE DEF leases
  <2>4. CASE Reject(h, leases) BY <1>2, <1>3, <2>1, <2>2, <2>4, PaidReject
  <2>5. CASE \E payout \in Payouts : Accept(h, payout, today, leases)
    BY <1>1, <1>2, <1>3, <2>1, <2>2, <2>5, PaidAccept
  <2> QED BY <2>3, <2>4, <2>5
<1> QED BY <1>5, <1>6

\* No other request changes who holds a range, except to give it up.
LEMMA PaidRequest ==
  ASSUME PaidInv, TypeInv, NEW h \in Handlers, Binding(h) \/ Request(h)
  PROVE  PaidInv'
<1>1. RequestType /\ MemoryType BY DEF TypeInv
<1>2. ASSUME NEW S, "relay" \notin S, Moves(h, S), UNCHANGED <<active, next, paidFor>> PROVE PaidInv'
  BY <1>1, <1>2, MoveCalm, PaidSame DEF PaidCalm
<1>3. CASE Binding(h)
  <2>1. UNCHANGED <<active, next, paidFor>>
    BY <1>3 DEF Binding, Lookup, Hydrate, Note, Lock, Unbind, Clear, Bind, memory, history
  <2> QED BY <1>2, <1>3, <2>1, LookupType, HydrateType, NoteType, LockType, UnbindType, ClearType,
             BindType DEF Binding
<1>4. CASE Gate(h) \/ Strike(h) \/ FetchTomb(h) \/ FetchRow(h) \/ Install(h)
  <2>1. UNCHANGED <<active, next, paidFor>>
    BY <1>4 DEF Gate, Strike, FetchTomb, FetchRow, Install, memory, history
  <2> QED BY <1>2, <1>4, <2>1, GateType, StrikeType, FetchTombType, FetchRowType, InstallType
<1>5. CASE Stamp(h)
  <2>1. Moves(h, {"idle"}) BY <1>5, StampType
  <2>2. /\ UNCHANGED <<next, paidFor>>
        /\ active' = [active EXCEPT ![hd[h].r] = NoLease] \/ active' = active
    BY <1>5 DEF Stamp, history
  <2> QED BY <1>1, <2>1, <2>2, MoveCalm, PaidSame DEF PaidCalm, MemoryType
<1> QED BY <1>3, <1>4, <1>5, PaidLease, PaidEnter, PaidRelay DEF Request

\* Every step keeps PaidInv.
LEMMA NextPaid == TypeInv /\ PaidInv /\ [Next]_vars => PaidInv'
<1> SUFFICES ASSUME TypeInv, PaidInv, [Next]_vars PROVE PaidInv' OBVIOUS
<1>1. RequestType /\ MemoryType BY DEF TypeInv
<1>2. CASE UNCHANGED vars BY <1>1, <1>2, PaidSame DEF PaidCalm, vars, memory, procs, history
<1>3. ASSUME NEW h \in Handlers, NEW w \in Workers,
             \/ StartUnbind(h, w)
             \/ \E a \in AddressType : StartClaim(h, w, a)
      PROVE  PaidInv'
  <2>1. UNCHANGED <<active, next, paidFor>>
    BY <1>3 DEF StartUnbind, StartClaim, Look, memory, history
  <2>2. Moves(h, {"idle", "lookup", "claim", "unbind"})
    BY <1>3, StartUnbindType, StartClaimType
  <2> QED BY <1>1, <2>1, <2>2, MoveCalm, PaidSame DEF PaidCalm
<1>4. ASSUME NEW h \in Handlers, NEW w \in Workers, NEW a \in AddressType, NEW r \in Ranges,
             StartSubmit(h, w, a, r)
      PROVE  PaidInv'
  <2>1. UNCHANGED <<active, next, paidFor>> BY <1>4 DEF StartSubmit, memory, history
  <2>2. \E n \in RequestRec : hd' = [hd EXCEPT ![h] = n] /\ n.pc \in {"enter", "tomb"}
    BY <1>4, StartSubmitType
  <2> QED BY <1>1, <2>1, <2>2, PaidSame DEF PaidCalm, RequestType
<1>5. ASSUME NEW p \in Persists, Persist(p) PROVE PaidInv'
  <2>1. UNCHANGED <<active, next, paidFor, hd>>
    BY <1>5 DEF Persist, Snapshot, CheckTomb, Drop, Upsert, UpsertFails, CheckEpoch, Purge, memory,
                history
  <2> QED BY <1>1, <2>1, PaidSame DEF PaidCalm
<1>6. CASE \/ \E w \in Workers : \/ Flush(w) \/ \E ignore \in IgnorePayout : Prune(w, ignore)
           \/ RevokeRow \/ NewDay
  <2>1. UNCHANGED <<active, next, paidFor, hd>>
    BY <1>6 DEF Flush, Prune, RevokeRow, NewDay, memory, procs, history
  <2> QED BY <1>1, <2>1, PaidSame DEF PaidCalm
<1>7. ASSUME NEW w \in Workers, NEW ban \in Revokes, Revoke(w, ban) PROVE PaidInv'
  BY <1>1, <1>7, PaidSame DEF PaidCalm, Revoke, MemoryType
<1>8. ASSUME NEW r \in Ranges, Expire(r) PROVE PaidInv'
  <2>1. active[r] # NoLease BY <1>1, <1>8, LeaseOfWorker DEF Expire
  <2>2. \A x \in Ranges \ {r} : active'[x] = active[x] BY <1>1, <1>8 DEF Expire, MemoryType
  <2>3. UNCHANGED <<next, paidFor, hd>> BY <1>8 DEF Expire, procs, history
  <2> QED BY <1>1, <2>1, <2>2, <2>3, PaidSame DEF PaidCalm
<1>9. CASE Crash
  <2>1. /\ active' = [r \in Ranges |-> NoLease] /\ UNCHANGED <<next, paidFor>>
        /\ hd' = [h \in Handlers |-> Idle]
    BY <1>9 DEF Crash, history
  <2>2. \A h \in Handlers : hd'[h].pc = "idle" BY <2>1, Values
  <2> QED BY <1>1, <2>1, <2>2, PaidSame DEF PaidCalm
<1> QED BY <1>2, <1>3, <1>4, <1>5, <1>6, <1>7, <1>8, <1>9, PaidRequest DEF Next, AddressType

\* No interleaving of submits, relays that fail late, expiry, reissue, revokes
\* and crashes credits a nonce range twice.
THEOREM RangeOnce == Spec => []RangePaidOnce
<1>1. Init => PaidInv
  <2> SUFFICES ASSUME Init PROVE PaidInv OBVIOUS
  <2>1. \A h \in Handlers : hd[h].pc = "idle" BY Values DEF Init
  <2> QED BY <2>1 DEF Init, PaidInv, At
<1>2. PaidInv => RangePaidOnce BY DEF PaidInv, RangePaidOnce
<1> QED BY <1>1, <1>2, NextPaid, TypeInductive, PTL DEF Spec

----------------------------------------------------------------------------
(* The day budget.                                                          *)

\* The counter in memory is the durable one of its day, days after it have none,
\* and no submit that is under way began on an earlier day.  The last part is what
\* a submit that waits for m.mu over midnight would break.
BudgetInv ==
  /\ \A d \in Days : payRow[d] = spent[d] /\ spent[d] <= DayBudget
  /\ pay.day <= today /\ pay.units = payRow[pay.day]
  /\ \A d \in Days : d > pay.day => payRow[d] = 0
  /\ \A h \in Handlers : hd[h].op = "submit" => hd[h].day = today

\* No submit is new.
NoNewSubmit ==
  \A h \in Handlers : hd'[h].op = "submit" => hd[h].op = "submit" /\ hd'[h].day = hd[h].day

\* A step that charges nothing keeps the budget.
LEMMA BudgetSame ==
  ASSUME BudgetInv, NoNewSubmit, UNCHANGED <<pay, payRow, spent, today>>
  PROVE  BudgetInv'
  BY DEF BudgetInv, NoNewSubmit

\* A request that goes on is not a new submit.
LEMMA MoveNoNewSubmit ==
  ASSUME RequestType, NEW h \in Handlers, NEW S, Moves(h, S)
  PROVE  NoNewSubmit
  BY DEF RequestType, Moves, Becomes, NoNewSubmit

\* A credit on the current day stays within what is left.
LEMMA BudgetAccept ==
  ASSUME BudgetInv, TypeInv, NEW h \in Handlers, hd[h].pc \in SubmitPcs, NEW payout \in Payouts,
         NEW leases \in [Ranges -> LeaseType], Accept(h, payout, today, leases)
  PROVE  BudgetInv'
<1> DEFINE got == Capped(payout, today)
           acc == Accrued(today)
<1>1. /\ RequestType /\ MemoryType /\ TableType /\ HistoryType /\ today \in Days /\ payout \in Nat
  BY WorkManagerAssumption DEF TypeInv, HistoryType
<1>2. Outcome(h) BY <1>1, AcceptType
<1>3. NoNewSubmit BY <1>1, <1>2, MoveNoNewSubmit DEF Outcome
<1>4. UNCHANGED today /\ ApplyBudget(payout, today) BY Zenon DEF Accept
<1>5. \/ UNCHANGED <<pay, payRow, spent>>
      \/ /\ pay' = [day |-> today, units |-> acc + got]
         /\ payRow' = [payRow EXCEPT ![today] = acc + got]
         /\ spent' = [spent EXCEPT ![today] = spent[today] + got]
  BY <1>4, Zenon DEF ApplyBudget
<1>6. pay.day \in Days /\ \A d \in Days : d \in Nat BY <1>1 DEF MemoryType, Days
<1>7. acc = payRow[today] /\ acc = spent[today]
  BY <1>1, <1>6 DEF BudgetInv, Accrued
<1>8. acc \in Nat /\ got \in Nat /\ (acc <= DayBudget => acc + got <= DayBudget)
  BY <1>1, BudgetLeft
<1> HIDE DEF got, acc
<1>9. acc + got <= DayBudget BY <1>1, <1>7, <1>8 DEF BudgetInv
<1>10. CASE UNCHANGED <<pay, payRow, spent>> BY <1>3, <1>4, <1>10, BudgetSame
<1>11. CASE /\ pay' = [day |-> today, units |-> acc + got]
            /\ payRow' = [payRow EXCEPT ![today] = acc + got]
            /\ spent' = [spent EXCEPT ![today] = spent[today] + got]
  <2>1. /\ pay'.day = today /\ pay'.units = acc + got
        /\ payRow'[today] = acc + got /\ spent'[today] = acc + got
        /\ \A d \in Days \ {today} : payRow'[d] = payRow[d] /\ spent'[d] = spent[d]
    BY <1>1, <1>7, <1>11 DEF TableType, HistoryType
  <2>2. \A d \in Days : payRow'[d] = spent'[d] /\ spent'[d] <= DayBudget
    BY <1>9, <2>1 DEF BudgetInv
  <2>3. \A d \in Days : d > today => payRow'[d] = 0
    BY <1>1, <1>6, <2>1 DEF BudgetInv
  <2>4. pay'.day <= today' /\ pay'.units = payRow'[pay'.day] BY <1>1, <1>4, <1>6, <2>1
  <2>5. \A g \in Handlers : hd'[g].op = "submit" => hd'[g].day = today'
    BY <1>3, <1>4 DEF NoNewSubmit, BudgetInv
  <2> QED BY <2>1, <2>2, <2>3, <2>4, <2>5 DEF BudgetInv
<1> QED BY <1>5, <1>10, <1>11

\* A step of a request keeps the budget.
LEMMA BudgetRequest ==
  ASSUME BudgetInv, TypeInv, NEW h \in Handlers, Binding(h) \/ Request(h)
  PROVE  BudgetInv'
<1>1. RequestType /\ MemoryType /\ today \in Days /\ active \in [Ranges -> LeaseType]
  BY DEF TypeInv, HistoryType, MemoryType
<1>2. ASSUME NEW S, Moves(h, S), UNCHANGED <<pay, payRow, spent, today>> PROVE BudgetInv'
  BY <1>1, <1>2, MoveNoNewSubmit, BudgetSame
<1>3. CASE Binding(h)
  <2>1. UNCHANGED <<pay, payRow, spent, today>>
    BY <1>3 DEF Binding, Lookup, Hydrate, Note, Lock, Unbind, Clear, Bind, memory, tables, history
  <2> QED BY <1>2, <1>3, <2>1, LookupType, HydrateType, NoteType, LockType, UnbindType, ClearType,
             BindType DEF Binding
<1>4. CASE Gate(h) \/ Strike(h) \/ FetchTomb(h) \/ FetchRow(h) \/ Install(h) \/ Lease(h) \/ Stamp(h)
  <2>1. UNCHANGED <<pay, payRow, spent, today>>
    BY <1>4 DEF Gate, Strike, FetchTomb, FetchRow, Install, Lease, Stamp, memory, tables, history
  <2> QED BY <1>2, <1>4, <2>1, GateType, StrikeType, FetchTombType, FetchRowType, InstallType,
             LeaseStepType, StampType
<1>5. ASSUME Outcome(h), UNCHANGED <<pay, payRow, spent, today>> PROVE BudgetInv'
  BY <1>2, <1>5 DEF Outcome
<1>6. ASSUME NEW leases, Reject(h, leases) \/ Refuse(h, leases), Outcome(h) PROVE BudgetInv'
  BY <1>5, <1>6 DEF Reject, Refuse, tables, history
<1>7. CASE Enter(h)
  <2>1. Outcome(h) BY <1>7, EnterType
  <2>2. hd[h].pc = "enter" BY <1>7 DEF Enter, At
  <2>3. hd[h].pc \in SubmitPcs /\ hd[h].day = today
    BY <1>1, <2>2 DEF SubmitPcs, RequestType, Shaped, BudgetInv
  <2>4. \/ \E leases : Reject(h, leases) \/ Refuse(h, leases)
        \/ AutoBan(h)
        \/ \E payout \in Payouts : Accept(h, payout, today, active)
        \/ UNCHANGED <<pay, payRow, spent, today>>
    BY <1>7, <2>3, Zenon DEF Enter, tables, history
  <2>5. AutoBan(h) => UNCHANGED <<pay, payRow, spent, today>> BY DEF AutoBan, tables, history
  <2> QED BY <1>1, <1>5, <1>6, <2>1, <2>3, <2>4, <2>5, BudgetAccept
<1>8. CASE RelayDone(h)
  <2>1. Outcome(h) BY <1>8, RelayDoneType
  <2>2. hd[h].pc \in SubmitPcs BY <1>8 DEF RelayDone, At, SubmitPcs
  <2>3. Reject(h, active) \/ \E payout \in Payouts : Accept(h, payout, today, active)
    BY <1>8, Zenon DEF RelayDone
  <2> QED BY <1>1, <1>6, <2>1, <2>2, <2>3, BudgetAccept
<1>9. ASSUME NEW live \in BOOLEAN, RelayFails(h, live) PROVE BudgetInv'
  <2> DEFINE leases == Restored(hd[h], live)
  <2>1. Outcome(h) BY <1>9, RelayFailsType
  <2>2. At(h, "relay") BY <1>9 DEF RelayFails
  <2>3. hd[h].pc \in SubmitPcs BY <2>2 DEF At, SubmitPcs
  <2>4. leases \in [Ranges -> LeaseType] BY <1>1, <2>2, RestoredType
  <2>5. Reject(h, leases) \/ \E payout \in Payouts : Accept(h, payout, today, leases)
    BY <1>9, Zenon DEF RelayFails
  <2> HIDE DEF leases
  <2> QED BY <1>6, <2>1, <2>3, <2>4, <2>5, BudgetAccept
<1> QED BY <1>3, <1>4, <1>7, <1>8, <1>9 DEF Request

\* Every step keeps the budget when no submit is under way over midnight.
LEMMA NextBudget ==
  ASSUME Midnight = FALSE
  PROVE  TypeInv /\ BudgetInv /\ [Next]_vars => BudgetInv'
<1> SUFFICES ASSUME TypeInv, BudgetInv, [Next]_vars PROVE BudgetInv' OBVIOUS
<1>1. RequestType /\ MemoryType /\ TableType /\ HistoryType BY DEF TypeInv
<1>2. ASSUME UNCHANGED <<pay, payRow, spent, today, hd>> PROVE BudgetInv'
  BY <1>2, BudgetSame DEF NoNewSubmit
<1>3. CASE UNCHANGED vars BY <1>2, <1>3 DEF vars, memory, procs, tables, history
<1>4. ASSUME NEW h \in Handlers, NEW w \in Workers,
             \/ StartUnbind(h, w)
             \/ \E a \in AddressType : StartClaim(h, w, a)
      PROVE  BudgetInv'
  <2>1. UNCHANGED <<pay, payRow, spent, today>>
    BY <1>4 DEF StartUnbind, StartClaim, Look, memory, tables, history
  <2>2. Moves(h, {"idle", "lookup", "claim", "unbind"})
    BY <1>4, StartUnbindType, StartClaimType
  <2> QED BY <1>1, <2>1, <2>2, MoveNoNewSubmit, BudgetSame
<1>5. ASSUME NEW h \in Handlers, NEW w \in Workers, NEW a \in AddressType, NEW r \in Ranges,
             StartSubmit(h, w, a, r)
      PROVE  BudgetInv'
  <2>1. UNCHANGED <<pay, payRow, spent, today>> BY <1>5 DEF StartSubmit, memory, tables, history
  <2>2. PICK n \in RequestRec : hd' = [hd EXCEPT ![h] = n] /\ n.day = today
    BY <1>5, StartSubmitType
  <2>3. \A g \in Handlers : hd'[g].op = "submit" => hd'[g].day = today
    BY <1>1, <2>2 DEF RequestType, BudgetInv
  <2> QED BY <2>1, <2>3 DEF BudgetInv
<1>6. ASSUME NEW p \in Persists, Persist(p) PROVE BudgetInv'
  BY <1>2, <1>6 DEF Persist, Snapshot, CheckTomb, Drop, Upsert, UpsertFails, CheckEpoch, Purge,
     memory, tables, history
<1>7. CASE \/ \E w \in Workers : \/ Flush(w) \/ \E ban \in Revokes : Revoke(w, ban)
                                 \/ \E ignore \in IgnorePayout : Prune(w, ignore)
           \/ RevokeRow \/ \E r \in Ranges : Expire(r)
  BY <1>2, <1>7 DEF Flush, Prune, Revoke, RevokeRow, Expire, memory, procs, tables, history
<1>8. CASE NewDay
  <2>1. /\ UNCHANGED <<pay, payRow, spent, hd>> /\ today' = today + 1
        /\ \A h \in Handlers : hd[h].op # "submit"
    BY <1>8 DEF NewDay, memory, procs, tables, history
  <2>2. today \in Nat /\ pay.day \in Nat BY <1>1 DEF MemoryType, HistoryType, Days
  <2> QED BY <2>1, <2>2 DEF BudgetInv
<1>9. CASE Crash
  <2>1. /\ pay' = [day |-> today, units |-> payRow[today]] /\ UNCHANGED <<payRow, spent, today>>
        /\ hd' = [h \in Handlers |-> Idle]
    BY <1>9 DEF Crash, tables, history
  <2>2. \A h \in Handlers : hd'[h].op = "" BY <2>1, Values
  <2>3. today \in Days /\ pay.day \in Days /\ \A d \in Days : d \in Nat
    BY <1>1 DEF MemoryType, HistoryType, Days
  <2>4. pay'.day = today /\ pay'.units = payRow[today] BY <2>1
  <2>5. \A d \in Days : d > today => payRow[d] = 0 BY <2>3 DEF BudgetInv
  <2>6. today <= today BY <2>3
  <2> QED BY <2>1, <2>2, <2>4, <2>5, <2>6 DEF BudgetInv
<1> QED BY <1>3, <1>4, <1>5, <1>6, <1>7, <1>8, <1>9, BudgetRequest DEF Next, AddressType

\* "Solvency: never accrue more than the UTC-day emission budget", across crashes
\* and whatever requests run at once, as long as no submit is under way over
\* midnight.  (With one the counter of the new day is reset: see the README.)
THEOREM BudgetHolds ==
  ASSUME Midnight = FALSE
  PROVE  Spec => []DayBudgetKept
<1>1. Init => BudgetInv
  <2> SUFFICES ASSUME Init PROVE BudgetInv OBVIOUS
  <2>1. \A h \in Handlers : hd[h].op = "" BY Values DEF Init
  <2>2. \A d \in Days : payRow[d] = 0 /\ spent[d] = 0 BY DEF Init
  <2>3. pay.day = 1 /\ pay.units = 0 /\ today = 1 /\ 1 \in Days BY Values DEF Init
  <2>4. 0 <= DayBudget BY WorkManagerAssumption
  <2>5. pay.day <= today /\ pay.units = payRow[pay.day] BY <2>2, <2>3
  <2> QED BY <2>1, <2>2, <2>4, <2>5 DEF BudgetInv
<1>2. BudgetInv => DayBudgetKept BY DEF BudgetInv, DayBudgetKept
<1> QED BY <1>1, <1>2, NextBudget, TypeInductive, PTL DEF Spec

=============================================================================
