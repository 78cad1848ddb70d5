----------------------- MODULE ScheduleDispatch_proofs ----------------------
(***************************************************************************)
(* Proofs about the schedule dispatch loops, for any number of schedules   *)
(* and gateways.  The argument is that of a compare-and-set: what a loop   *)
(* holds between its claim and its last update is either the current       *)
(* revision of an active record, or an older revision than the key has, in *)
(* which case every update it still makes is refused.                      *)
(***************************************************************************)
EXTENDS ScheduleDispatch, FiniteSetTheorems, TLAPS

\* A multiple of the interval leaves no remainder.
LEMMA MultipleOfInterval ==
    ASSUME NEW k \in Int, NEW interval \in Nat \ {0}
    PROVE  (k * interval) % interval = 0
  OBVIOUS

\* compute_interval_next_run_at: the first occurrence of the grid after now.
LEMMA NextRunIsNext ==
    ASSUME NEW anchor \in Int, NEW interval \in Nat \ {0}, NEW now \in Int
    PROVE  LET next == ComputeIntervalNextRunAt(anchor, interval, now) IN
           /\ next \in Int
           /\ next > now
           /\ anchor <= now => next <= now + interval
           /\ (next - anchor) % interval = 0 \/ next = anchor
<1>1. CASE anchor > now
  BY <1>1 DEF ComputeIntervalNextRunAt
<1>2. CASE anchor <= now
  <2> DEFINE n == now - anchor
             k == n \div interval
  <2>1. n \in Nat /\ k \in Int
    BY <1>2
  <2>2. n = interval * k + (n % interval) /\ n % interval \in 0..(interval - 1)
    BY <2>1
  <2> DEFINE next == anchor + (k + 1) * interval
  <2>3. (k + 1) * interval = interval * k + interval
    BY <2>1
  <2>4. interval * k \in Int
    BY <2>1
  <2>5. ComputeIntervalNextRunAt(anchor, interval, now) = next
    BY <1>2 DEF ComputeIntervalNextRunAt
  <2> HIDE DEF k
  <2>6. next \in Int /\ next > now /\ next <= now + interval
    BY <2>1, <2>2, <2>3, <2>4
  <2>7. next - anchor = (k + 1) * interval
    BY <2>1, <2>3, <2>4
  <2>8. (next - anchor) % interval = 0
    BY <2>1, <2>7, MultipleOfInterval
  <2> QED BY <2>5, <2>6, <2>8
<1> QED BY <1>1, <1>2

-----------------------------------------------------------------------------
(* Types *)

LEMMA UnclaimedType ==
    ASSUME NEW state \in {"absent", "ACTIVE", "COMPLETED", "deleted"},
           NEW type \in {"once", "interval"}, NEW next \in Int, NEW start \in Int
    PROVE  /\ Unclaimed(state, type, next, start) \in Record
           /\ Unclaimed(state, type, next, start).state = state
  BY DEF Unclaimed, Record

LEMMA NoRecordType == NoRecord \in Record
  BY UnclaimedType DEF NoRecord

\* The next occurrence of an interval schedule is a time.
LEMMA NextRunType ==
    /\ \A anchor \in Int : ComputeIntervalNextRunAt(anchor, Interval, -1) \in Int
    /\ \A anchor \in Int : ComputeIntervalNextRunAt(anchor, Interval, 0) \in Int
<1>1. Interval \in Nat \ {0}
  BY ScheduleAssumption
<1>2. ASSUME NEW anchor \in Int, NEW now \in Int
      PROVE  ComputeIntervalNextRunAt(anchor, Interval, now) \in Int
  BY <1>1, NextRunIsNext
<1>3. 0 \in Int /\ -1 \in Int
  OBVIOUS
<1> QED BY <1>2, <1>3, Zenon

\* The records the API stores have the record type.
LEMMA NewRecordType ==
    ASSUME NEW rec \in NewRecords
    PROVE  rec \in Record /\ rec.state = "ACTIVE"
<1>1. CASE \E at \in 1..MaxDelay : rec = Unclaimed("ACTIVE", "once", at, 0)
  <2>1. PICK at \in 1..MaxDelay : rec = Unclaimed("ACTIVE", "once", at, 0)
    BY <1>1
  <2>2. at \in Int
    BY ScheduleAssumption
  <2> QED BY <2>1, <2>2, UnclaimedType
<1>2. CASE \E at \in (1 - Interval)..MaxDelay :
            rec = Unclaimed("ACTIVE", "interval", ComputeIntervalNextRunAt(at, Interval, -1), at)
  <2>1. PICK at \in (1 - Interval)..MaxDelay :
            rec = Unclaimed("ACTIVE", "interval", ComputeIntervalNextRunAt(at, Interval, -1), at)
    BY <1>2
  <2>2. at \in Int
    BY ScheduleAssumption
  <2>3. ComputeIntervalNextRunAt(at, Interval, -1) \in Int
    BY <2>2, NextRunType
  <2> QED BY <2>1, <2>2, <2>3, UnclaimedType
<1> QED BY <1>1, <1>2 DEF NewRecords

\* advance_schedule_after_dispatch keeps the record type.
LEMMA AdvancedType ==
    ASSUME NEW rec \in Record
    PROVE  Advanced(rec) \in Record
<1>1. rec.start_at \in Int /\ rec.dispatch_count + 1 \in Nat
  BY DEF Record
<1>2. ComputeIntervalNextRunAt(rec.start_at, Interval, 0) \in Int
  BY <1>1, NextRunType, Zenon
<1>3. ASSUME NEW count \in Nat, NEW lease \in Int, NEW state \in {"COMPLETED"}
      PROVE  [rec EXCEPT !.dispatch_count = count, !.lease_until = lease, !.state = state] \in Record
  BY DEF Record
<1>4. ASSUME NEW count \in Nat, NEW lease \in Int, NEW next \in Int
      PROVE  [rec EXCEPT !.dispatch_count = count, !.lease_until = lease, !.next_run_at = next] \in Record
  BY DEF Record
<1>5. 0 \in Int
  OBVIOUS
<1> QED BY <1>1, <1>2, <1>3, <1>4, <1>5 DEF Advanced

\* The passing of time keeps a record's type, state and revision.
LEMMA LaterKeeps ==
    ASSUME NEW rec \in Record
    PROVE  /\ Later(rec) \in Record
           /\ Later(rec).state = rec.state
           /\ Later(rec).revision = rec.revision
<1> DEFINE next == IF rec.next_run_at > 0 THEN rec.next_run_at - 1 ELSE 0
           lease == IF rec.lease_until > 0 THEN rec.lease_until - 1 ELSE 0
           start == IF rec.schedule_type = "once" THEN rec.start_at
                    ELSE IF rec.start_at = 1 - Interval THEN 0 ELSE rec.start_at - 1
           new == [rec EXCEPT !.next_run_at = next, !.lease_until = lease, !.start_at = start]
<1>1. next \in Int /\ lease \in Int /\ start \in Int
  BY DEF Record
<1>2. Later(rec) = IF rec.state # "ACTIVE" THEN rec ELSE new
  BY DEF Later
<1> HIDE DEF next, lease, start
<1>3. new \in Record /\ new.state = rec.state /\ new.revision = rec.revision
  BY <1>1 DEF Record
<1> QED BY <1>2, <1>3

LEMMA ChargeType ==
    ASSUME TypeOK, NEW ok \in BOOLEAN, Charge(ok)
    PROVE  faultsLeft' \in 0..MaxFaults
  BY ScheduleAssumption DEF Charge, TypeOK

\* What a put does to the bucket: one key gets the record and a new revision.
LEMMA StoreStores ==
    ASSUME TypeOK, NEW s \in Schedules, NEW rec \in Record, Store(s, rec)
    PROVE  /\ schedulesKv' \in [Schedules -> Record]
           /\ \A t \in Schedules \ {s} : schedulesKv'[t] = schedulesKv[t]
           /\ schedulesKv'[s].revision = schedulesKv[s].revision + 1
           /\ schedulesKv'[s].state = rec.state
<1> DEFINE new == [rec EXCEPT !.revision = schedulesKv[s].revision + 1]
<1>1. schedulesKv[s].revision \in Nat
  BY DEF TypeOK, Record
<1>2. new \in Record /\ new.revision = schedulesKv[s].revision + 1 /\ new.state = rec.state
  BY <1>1 DEF Record
<1>3. schedulesKv' = [schedulesKv EXCEPT ![s] = new]
  BY DEF Store
<1> HIDE DEF new
<1> QED BY <1>2, <1>3 DEF TypeOK

\* What the calls do: an update that is applied names the current revision.
LEMMA AppliesStores ==
    ASSUME TypeOK, NEW s \in Schedules, NEW rec \in Record, NEW ok \in BOOLEAN,
           Applies(s, rec, ok)
    PROVE  /\ schedulesKv' \in [Schedules -> Record]
           /\ faultsLeft' \in 0..MaxFaults
           /\ \A t \in Schedules \ {s} : schedulesKv'[t] = schedulesKv[t]
           /\ \/ schedulesKv'[s] = schedulesKv[s] /\ ~ok
              \/ /\ schedulesKv'[s].revision = schedulesKv[s].revision + 1
                 /\ schedulesKv'[s].state = rec.state
<1>1. faultsLeft' \in 0..MaxFaults
  BY ChargeType DEF Applies
<1>2. CASE Store(s, rec)
  BY <1>1, <1>2, StoreStores
<1>3. CASE ~ok /\ UNCHANGED schedulesKv
  BY <1>1, <1>3 DEF TypeOK
<1> QED BY <1>2, <1>3 DEF Applies

LEMMA UpdateStores ==
    ASSUME TypeOK, NEW s \in Schedules, NEW rec \in Record, NEW ok \in BOOLEAN, NEW last \in Nat,
           Update(s, rec, last, ok)
    PROVE  /\ schedulesKv' \in [Schedules -> Record]
           /\ faultsLeft' \in 0..MaxFaults
           /\ \A t \in Schedules \ {s} : schedulesKv'[t] = schedulesKv[t]
           /\ \/ schedulesKv'[s] = schedulesKv[s] /\ ~ok
              \/ /\ last = schedulesKv[s].revision
                 /\ schedulesKv'[s].revision = schedulesKv[s].revision + 1
                 /\ schedulesKv'[s].state = rec.state
<1>1. CASE last = schedulesKv[s].revision /\ Applies(s, rec, ok)
  BY <1>1, AppliesStores
<1>2. CASE last # schedulesKv[s].revision /\ ~ok /\ UNCHANGED <<schedulesKv, faultsLeft>>
  BY <1>2 DEF TypeOK
<1> QED BY <1>1, <1>2 DEF Update

\* What the loop's moves do to a dispatcher.
LEMMA NextKeyMoves ==
    ASSUME TypeOK, NEW g \in Gateways, NEW todo \in SUBSET Schedules, NextKey(g, todo)
    PROVE  /\ dispatcher' \in [Gateways -> DispatcherRecord]
           /\ dispatcher'[g].pc \in {"idle", "scan"}
           /\ \A h \in Gateways \ {g} : dispatcher'[h] = dispatcher[h]
<1>1. ASSUME NEW pc \in {"idle", "scan"}, NEW d \in DispatcherRecord, NEW rec \in Record
      PROVE  /\ [d EXCEPT !.pc = pc, !.todo = todo, !.claimed = rec] \in DispatcherRecord
             /\ [d EXCEPT !.pc = pc, !.todo = todo, !.claimed = rec].pc = pc
  BY DEF DispatcherRecord
<1> DEFINE pc == IF todo = {} THEN "idle" ELSE "scan"
           new == [dispatcher[g] EXCEPT !.pc = pc, !.todo = todo, !.claimed = NoRecord]
<1>2. pc \in {"idle", "scan"}
  OBVIOUS
<1>3. dispatcher' = [dispatcher EXCEPT ![g] = new]
  BY DEF NextKey
<1> HIDE DEF pc
<1>4. dispatcher[g] \in DispatcherRecord
  BY DEF TypeOK
<1>5. new \in DispatcherRecord /\ new.pc = pc
  BY <1>1, <1>2, <1>4, NoRecordType, Zenon
<1> HIDE DEF new
<1> QED BY <1>2, <1>3, <1>5 DEF TypeOK

LEMMA GotoMoves ==
    ASSUME TypeOK, NEW g \in Gateways,
           NEW pc \in {"idle", "scan", "claim", "put", "publish", "finalize", "release"},
           Goto(g, pc)
    PROVE  /\ dispatcher' \in [Gateways -> DispatcherRecord]
           /\ dispatcher'[g].schedule = dispatcher[g].schedule
           /\ dispatcher'[g].claimed = dispatcher[g].claimed
           /\ \A h \in Gateways \ {g} : dispatcher'[h] = dispatcher[h]
<1> DEFINE new == [dispatcher[g] EXCEPT !.pc = pc]
<1>1. new \in DispatcherRecord /\ new.schedule = dispatcher[g].schedule
                               /\ new.claimed = dispatcher[g].claimed
  BY DEF TypeOK, DispatcherRecord
<1>2. dispatcher' = [dispatcher EXCEPT ![g] = new]
  BY DEF Goto
<1> HIDE DEF new
<1> QED BY <1>1, <1>2 DEF TypeOK

-----------------------------------------------------------------------------
(* The inductive invariant *)

\* Where a loop holds a claim, the claim is of an active record, and the key
\* either still is at that revision and active, or has moved on.
ClaimStands(g) ==
    dispatcher[g].pc \notin {"idle", "scan"} =>
        LET claimed == dispatcher[g].claimed
            rec == schedulesKv[dispatcher[g].schedule] IN
        /\ claimed.state = "ACTIVE"
        /\ claimed.revision <= rec.revision
        /\ claimed.revision = rec.revision => rec.state = "ACTIVE"

Inv == TypeOK /\ \A g \in Gateways : ClaimStands(g)

\* A claim survives what the other actors do to the bucket.
LEMMA ClaimSurvives ==
    ASSUME Inv, schedulesKv' \in [Schedules -> Record],
           NEW g \in Gateways, dispatcher'[g] = dispatcher[g],
           \A t \in Schedules : \/ schedulesKv'[t] = schedulesKv[t]
                                \/ schedulesKv'[t].revision = schedulesKv[t].revision + 1
    PROVE  ClaimStands(g)'
<1> DEFINE s == dispatcher[g].schedule
<1>1. /\ s \in Schedules
      /\ dispatcher[g].claimed.revision \in Nat
      /\ schedulesKv[s].revision \in Nat
  BY DEF Inv, TypeOK, DispatcherRecord, Record
<1>2. ClaimStands(g)
  BY DEF Inv
<1> QED BY <1>1, <1>2 DEF ClaimStands

-----------------------------------------------------------------------------
(* Every step keeps it *)

\* The API's two writes.
LEMMA ApiStep ==
    ASSUME Inv, NEW s \in Schedules, CreateSchedule(s) \/ DeleteSchedule(s)
    PROVE  Inv'
<1>1. PICK rec \in Record, ok \in BOOLEAN : Applies(s, rec, ok)
  <2>1. CASE CreateSchedule(s)
    BY <2>1, NewRecordType DEF CreateSchedule
  <2>2. CASE DeleteSchedule(s)
    <3>1. [schedulesKv[s] EXCEPT !.state = "deleted"] \in Record
      BY DEF Inv, TypeOK, Record
    <3> QED BY <2>2, <3>1 DEF DeleteSchedule
  <2> QED BY <2>1, <2>2
<1>2. /\ schedulesKv' \in [Schedules -> Record]
      /\ faultsLeft' \in 0..MaxFaults
      /\ \A t \in Schedules : \/ schedulesKv'[t] = schedulesKv[t]
                             \/ schedulesKv'[t].revision = schedulesKv[t].revision + 1
  BY <1>1, AppliesStores DEF Inv
<1>3. UNCHANGED <<dispatcher, queued>>
  BY DEF CreateSchedule, DeleteSchedule
<1>4. TypeOK'
  BY <1>2, <1>3 DEF Inv, TypeOK
<1>5. \A g \in Gateways : ClaimStands(g)'
  BY <1>2, <1>3, ClaimSurvives
<1> QED BY <1>4, <1>5 DEF Inv

\* The steps of a loop that leave the bucket alone.
LEMMA LocalStep ==
    ASSUME Inv, NEW g \in Gateways, UNCHANGED schedulesKv,
           dispatcher' \in [Gateways -> DispatcherRecord],
           queued' \in [Schedules -> Nat], faultsLeft' \in 0..MaxFaults,
           \A h \in Gateways \ {g} : dispatcher'[h] = dispatcher[h],
           ClaimStands(g)'
    PROVE  Inv'
<1>1. TypeOK'
  BY DEF Inv, TypeOK
<1>2. \A h \in Gateways : ClaimStands(h)'
  BY DEF Inv, ClaimStands
<1> QED BY <1>1, <1>2 DEF Inv

LEMMA ScanStep ==
    ASSUME Inv, NEW g \in Gateways, Scan(g) \/ GatewayCrash(g)
    PROVE  Inv'
<1>1. PICK todo \in SUBSET Schedules, ok \in BOOLEAN : Charge(ok) /\ NextKey(g, todo)
  <2>1. CASE Scan(g)
    BY <2>1 DEF Scan
  <2>2. CASE GatewayCrash(g)
    BY <2>2 DEF GatewayCrash
  <2> QED BY <2>1, <2>2
<1>2. UNCHANGED <<schedulesKv, queued>>
  BY DEF Scan, GatewayCrash
<1>3. TypeOK
  BY DEF Inv
<1>4. /\ dispatcher' \in [Gateways -> DispatcherRecord]
      /\ dispatcher'[g].pc \in {"idle", "scan"}
      /\ \A h \in Gateways \ {g} : dispatcher'[h] = dispatcher[h]
  BY <1>1, <1>3, NextKeyMoves
<1>5. faultsLeft' \in 0..MaxFaults
  BY <1>1, <1>3, ChargeType
<1>6. ClaimStands(g)'
  BY <1>4 DEF ClaimStands
<1> QED BY <1>2, <1>3, <1>4, <1>5, <1>6, LocalStep DEF TypeOK

\* The claim a loop prepares is of the record as it is, and that is active.
LEMMA FetchStep ==
    ASSUME Inv, NEW g \in Gateways, NEW s \in Schedules, Fetch(g, s)
    PROVE  Inv'
<1> DEFINE rec == schedulesKv[s]
           todo == dispatcher[g].todo \ {s}
           claim == [pc |-> "claim", todo |-> todo, schedule |-> s,
                     claimed |-> [rec EXCEPT !.lease_until = Lease]]
<1>1. TypeOK /\ UNCHANGED <<schedulesKv, queued>>
  BY DEF Inv, Fetch
<1>2. rec \in Record /\ todo \in SUBSET Schedules
  BY <1>1 DEF TypeOK, DispatcherRecord
<1>3. PICK ok \in BOOLEAN :
        /\ Charge(ok)
        /\ IF ok /\ IsScheduleDue(rec) /\ rec.dispatch_count < MaxDispatches
           THEN dispatcher' = [dispatcher EXCEPT ![g] = claim]
           ELSE NextKey(g, todo)
  BY DEF Fetch
<1>4. faultsLeft' \in 0..MaxFaults
  BY <1>1, <1>3, ChargeType
<1>5. CASE IsScheduleDue(rec) /\ dispatcher' = [dispatcher EXCEPT ![g] = claim]
  <2>1. Lease \in Int
    BY ScheduleAssumption
  <2>2. claim.claimed \in Record /\ claim.claimed.state = rec.state
                                /\ claim.claimed.revision = rec.revision
    BY <1>2, <2>1 DEF Record
  <2>3. claim \in DispatcherRecord /\ claim.schedule = s
    BY <1>2, <2>2 DEF DispatcherRecord
  <2>4. rec.state = "ACTIVE" /\ rec.revision \in Nat
    BY <1>2, <1>5 DEF IsScheduleDue, Record
  <2> HIDE DEF claim
  <2>5. /\ dispatcher' \in [Gateways -> DispatcherRecord]
        /\ dispatcher'[g] = claim
        /\ \A h \in Gateways \ {g} : dispatcher'[h] = dispatcher[h]
    BY <1>1, <1>5, <2>3 DEF TypeOK
  <2>6. ClaimStands(g)'
    BY <1>1, <2>2, <2>3, <2>4, <2>5 DEF ClaimStands
  <2> QED BY <1>1, <1>4, <2>5, <2>6, LocalStep DEF TypeOK
<1>6. CASE NextKey(g, todo)
  <2>1. /\ dispatcher' \in [Gateways -> DispatcherRecord]
        /\ dispatcher'[g].pc \in {"idle", "scan"}
        /\ \A h \in Gateways \ {g} : dispatcher'[h] = dispatcher[h]
    BY <1>1, <1>2, <1>6, NextKeyMoves
  <2>2. ClaimStands(g)'
    BY <2>1 DEF ClaimStands
  <2> QED BY <1>1, <1>4, <2>1, <2>2, LocalStep DEF TypeOK
<1> QED BY <1>3, <1>5, <1>6

\* The two calls that submit the run.
LEMMA SubmitStep ==
    ASSUME Inv, NEW g \in Gateways, PutRunSnapshot(g) \/ PublishJob(g)
    PROVE  Inv'
<1>1. TypeOK /\ ClaimStands(g) /\ UNCHANGED schedulesKv
  BY DEF Inv, PutRunSnapshot, PublishJob
<1>2. dispatcher[g].pc \in {"put", "publish"} /\ dispatcher[g].schedule \in Schedules
  BY <1>1 DEF PutRunSnapshot, PublishJob, At, TypeOK, DispatcherRecord
<1>3. PICK ok \in BOOLEAN, pc \in {"publish", "finalize", "release"} : Charge(ok) /\ Goto(g, pc)
  BY DEF PutRunSnapshot, PublishJob, AfterSubmit
<1>4. queued' \in [Schedules -> Nat]
  <2>1. queued[dispatcher[g].schedule] + 1 \in Nat
    BY <1>1, <1>2 DEF TypeOK
  <2> QED BY <1>1, <2>1 DEF TypeOK, PutRunSnapshot, PublishJob
<1>5. faultsLeft' \in 0..MaxFaults
  BY <1>1, <1>3, ChargeType
<1>6. /\ dispatcher' \in [Gateways -> DispatcherRecord]
      /\ dispatcher'[g].schedule = dispatcher[g].schedule
      /\ dispatcher'[g].claimed = dispatcher[g].claimed
      /\ \A h \in Gateways \ {g} : dispatcher'[h] = dispatcher[h]
  BY <1>1, <1>3, GotoMoves
<1>7. ClaimStands(g)'
  BY <1>1, <1>2, <1>6 DEF ClaimStands
<1> QED BY <1>1, <1>4, <1>5, <1>6, <1>7, LocalStep

\* The steps of a loop that update its schedule's record.
LEMMA BucketStep ==
    ASSUME Inv, NEW g \in Gateways, UNCHANGED queued,
           NEW s \in Schedules, NEW rec \in Record, NEW ok \in BOOLEAN, NEW last \in Nat,
           Update(s, rec, last, ok),
           dispatcher' \in [Gateways -> DispatcherRecord],
           \A h \in Gateways \ {g} : dispatcher'[h] = dispatcher[h],
           ClaimStands(g)'
    PROVE  Inv'
<1>1. /\ schedulesKv' \in [Schedules -> Record]
      /\ faultsLeft' \in 0..MaxFaults
      /\ \A t \in Schedules : \/ schedulesKv'[t] = schedulesKv[t]
                             \/ schedulesKv'[t].revision = schedulesKv[t].revision + 1
  BY UpdateStores DEF Inv
<1>2. TypeOK'
  BY <1>1 DEF Inv, TypeOK
<1>3. \A h \in Gateways : ClaimStands(h)'
  BY <1>1, ClaimSurvives
<1> QED BY <1>2, <1>3 DEF Inv

\* What a loop that holds a claim knows.
LEMMA ClaimFacts ==
    ASSUME Inv, NEW g \in Gateways, dispatcher[g].pc \notin {"idle", "scan"}
    PROVE  LET d == dispatcher[g] IN
           /\ TypeOK /\ ClaimStands(g)
           /\ d \in DispatcherRecord
           /\ d.schedule \in Schedules /\ d.todo \in SUBSET Schedules
           /\ d.claimed \in Record /\ d.claimed.state = "ACTIVE"
           /\ d.claimed.revision \in Nat
           /\ schedulesKv[d.schedule].revision \in Nat
  BY DEF Inv, TypeOK, DispatcherRecord, Record, ClaimStands

\* A claim that succeeds leaves the loop with the key's new revision.
LEMMA ClaimStep ==
    ASSUME Inv, NEW g \in Gateways, Claim(g)
    PROVE  Inv'
<1> DEFINE d == dispatcher[g]
           s == d.schedule
           owned == [d EXCEPT !.pc = "put", !.claimed.revision = @ + 1]
<1>1. d.pc = "claim" /\ UNCHANGED queued
  BY DEF Claim, At
<1>2. /\ TypeOK /\ d \in DispatcherRecord
      /\ s \in Schedules /\ d.todo \in SUBSET Schedules
      /\ d.claimed \in Record /\ d.claimed.state = "ACTIVE"
      /\ d.claimed.revision \in Nat /\ schedulesKv[s].revision \in Nat
  BY <1>1, ClaimFacts
<1>3. PICK ok \in BOOLEAN :
        /\ Update(s, d.claimed, d.claimed.revision, ok)
        /\ IF ok THEN dispatcher' = [dispatcher EXCEPT ![g] = owned] ELSE NextKey(g, d.todo)
  BY DEF Claim
<1>4. CASE ok
  <2>1. /\ owned \in DispatcherRecord /\ owned.schedule = s
        /\ owned.claimed.state = "ACTIVE"
        /\ owned.claimed.revision = d.claimed.revision + 1
    <3> DEFINE next == d.claimed.revision + 1
               new == [d.claimed EXCEPT !.revision = next]
    <3>1. next \in Nat
      BY <1>2
    <3> HIDE DEF next
    <3>2. new \in Record /\ new.state = "ACTIVE" /\ new.revision = next
      BY <1>2, <3>1 DEF Record
    <3>3. owned = [d EXCEPT !.pc = "put", !.claimed = new]
      BY <1>2 DEF DispatcherRecord, next
    <3> HIDE DEF new, owned
    <3>4. owned \in DispatcherRecord /\ owned.schedule = s /\ owned.claimed = new
      BY <1>2, <3>2, <3>3 DEF DispatcherRecord
    <3> QED BY <3>2, <3>4 DEF next
  <2>2. schedulesKv'[s].revision = d.claimed.revision + 1 /\ schedulesKv'[s].state = "ACTIVE"
    <3>1. Update(s, d.claimed, d.claimed.revision, ok)
      BY <1>3
    <3>2. /\ d.claimed.revision = schedulesKv[s].revision
          /\ schedulesKv'[s].revision = schedulesKv[s].revision + 1
          /\ schedulesKv'[s].state = d.claimed.state
      BY <1>2, <1>4, <3>1, UpdateStores
    <3> QED BY <1>2, <3>2
  <2> HIDE DEF owned
  <2>3. /\ dispatcher' \in [Gateways -> DispatcherRecord]
        /\ dispatcher'[g] = owned
        /\ \A h \in Gateways \ {g} : dispatcher'[h] = dispatcher[h]
    BY <1>2, <1>3, <1>4, <2>1 DEF TypeOK
  <2>4. ClaimStands(g)'
    BY <1>2, <2>1, <2>2, <2>3 DEF ClaimStands
  <2> QED BY <1>1, <1>2, <1>3, <2>3, <2>4, BucketStep
<1>5. CASE ~ok
  <2>1. /\ dispatcher' \in [Gateways -> DispatcherRecord]
        /\ dispatcher'[g].pc \in {"idle", "scan"}
        /\ \A h \in Gateways \ {g} : dispatcher'[h] = dispatcher[h]
    BY <1>2, <1>3, <1>5, NextKeyMoves
  <2>2. ClaimStands(g)'
    BY <2>1 DEF ClaimStands
  <2> QED BY <1>1, <1>2, <1>3, <2>1, <2>2, BucketStep
<1> QED BY <1>4, <1>5

LEMMA ReleaseStep ==
    ASSUME Inv, NEW g \in Gateways, Release(g)
    PROVE  Inv'
<1> DEFINE d == dispatcher[g]
<1>1. d.pc = "release" /\ UNCHANGED queued /\ NextKey(g, d.todo)
  BY DEF Release, At
<1>2. /\ TypeOK /\ d.schedule \in Schedules /\ d.todo \in SUBSET Schedules
      /\ d.claimed \in Record /\ d.claimed.revision \in Nat
  BY <1>1, ClaimFacts
<1>3. Released(d.claimed) \in Record
  BY <1>2 DEF Released, Record
<1>4. PICK ok \in BOOLEAN : Update(d.schedule, Released(d.claimed), d.claimed.revision, ok)
  BY DEF Release, ClaimedRevision
<1>5. /\ dispatcher' \in [Gateways -> DispatcherRecord]
      /\ dispatcher'[g].pc \in {"idle", "scan"}
      /\ \A h \in Gateways \ {g} : dispatcher'[h] = dispatcher[h]
  BY <1>1, <1>2, NextKeyMoves
<1>6. ClaimStands(g)'
  BY <1>5 DEF ClaimStands
<1> QED BY <1>1, <1>2, <1>3, <1>4, <1>5, <1>6, BucketStep

\* When recording the dispatch raises, the loop goes on to release what the
\* recording may have replaced: its claim is then of an older revision.
LEMMA FinalizeStep ==
    ASSUME Inv, NEW g \in Gateways, Finalize(g)
    PROVE  Inv'
<1> DEFINE d == dispatcher[g]
           s == d.schedule
           rec == Advanced(d.claimed)
<1>1. d.pc = "finalize" /\ UNCHANGED queued
  BY DEF Finalize, At
<1>2. /\ TypeOK /\ ClaimStands(g) /\ s \in Schedules /\ d.todo \in SUBSET Schedules
      /\ d.claimed \in Record /\ d.claimed.revision \in Nat
      /\ schedulesKv[s].revision \in Nat
  BY <1>1, ClaimFacts
<1>3. rec \in Record
  BY <1>2, AdvancedType
<1>4. PICK ok \in BOOLEAN :
        /\ Update(s, rec, d.claimed.revision, ok)
        /\ IF ok THEN NextKey(g, d.todo) ELSE Goto(g, "release")
  BY DEF Finalize, ClaimedRevision
<1> HIDE DEF rec
<1>5. CASE ok
  <2>1. /\ dispatcher' \in [Gateways -> DispatcherRecord]
        /\ dispatcher'[g].pc \in {"idle", "scan"}
        /\ \A h \in Gateways \ {g} : dispatcher'[h] = dispatcher[h]
    BY <1>2, <1>4, <1>5, NextKeyMoves
  <2>2. ClaimStands(g)'
    BY <2>1 DEF ClaimStands
  <2> QED BY <1>1, <1>2, <1>3, <1>4, <2>1, <2>2, BucketStep
<1>6. CASE ~ok
  <2>1. /\ dispatcher' \in [Gateways -> DispatcherRecord]
        /\ dispatcher'[g].schedule = s
        /\ dispatcher'[g].claimed = d.claimed
        /\ \A h \in Gateways \ {g} : dispatcher'[h] = dispatcher[h]
    BY <1>2, <1>4, <1>6, GotoMoves
  <2>2. \/ schedulesKv'[s] = schedulesKv[s]
        \/ schedulesKv'[s].revision = schedulesKv[s].revision + 1
    BY <1>2, <1>3, <1>4, UpdateStores
  <2>3. ClaimStands(g)'
    BY <1>1, <1>2, <2>1, <2>2 DEF ClaimStands
  <2> QED BY <1>1, <1>2, <1>3, <1>4, <2>1, <2>3, BucketStep
<1> QED BY <1>5, <1>6

LEMMA TickStep ==
    ASSUME Inv, Tick
    PROVE  Inv'
<1>1. TypeOK
  BY DEF Inv
<1>2. schedulesKv' = [s \in Schedules |-> Later(schedulesKv[s])]
  BY DEF Tick
<1>3. /\ schedulesKv' \in [Schedules -> Record]
      /\ \A s \in Schedules : /\ schedulesKv'[s].state = schedulesKv[s].state
                             /\ schedulesKv'[s].revision = schedulesKv[s].revision
  BY <1>1, <1>2, LaterKeeps DEF TypeOK
<1> DEFINE new(g) == [dispatcher[g] EXCEPT !.claimed = Later(@)]
<1>4. ASSUME NEW g \in Gateways
      PROVE  /\ new(g) \in DispatcherRecord
             /\ new(g).pc = dispatcher[g].pc /\ new(g).schedule = dispatcher[g].schedule
             /\ new(g).claimed.state = dispatcher[g].claimed.state
             /\ new(g).claimed.revision = dispatcher[g].claimed.revision
  <2>1. dispatcher[g] \in DispatcherRecord /\ dispatcher[g].schedule \in Schedules
                                        /\ dispatcher[g].claimed \in Record
    BY <1>1 DEF TypeOK, DispatcherRecord
  <2> DEFINE later == Later(dispatcher[g].claimed)
  <2>2. later \in Record /\ later.state = dispatcher[g].claimed.state
                        /\ later.revision = dispatcher[g].claimed.revision
    BY <2>1, LaterKeeps
  <2> HIDE DEF later
  <2>3. new(g) = [dispatcher[g] EXCEPT !.claimed = later]
    BY DEF later
  <2> HIDE DEF new
  <2> QED BY <2>1, <2>2, <2>3 DEF DispatcherRecord
<1>5. dispatcher' = [g \in Gateways |-> new(g)]
  BY DEF Tick
<1> HIDE DEF new
<1>6. faultsLeft' \in 0..MaxFaults
  <2>1. Cardinality(Overruns) \in Nat
    <3>1. IsFiniteSet(Overruns)
      BY ScheduleAssumption, FS_Subset DEF Overruns
    <3> QED BY <3>1, FS_CardinalityType
  <2>2. Cardinality(Overruns) <= faultsLeft /\ faultsLeft' = faultsLeft - Cardinality(Overruns)
    BY DEF Tick
  <2> QED BY <1>1, <2>1, <2>2, ScheduleAssumption DEF TypeOK
<1>7. TypeOK'
  BY <1>1, <1>3, <1>4, <1>5, <1>6 DEF TypeOK, Tick
<1>8. ASSUME NEW g \in Gateways PROVE ClaimStands(g)'
  <2>1. ClaimStands(g) /\ dispatcher[g].schedule \in Schedules
    BY DEF Inv, TypeOK, DispatcherRecord
  <2> QED BY <1>3, <1>4, <1>5, <2>1 DEF ClaimStands
<1> QED BY <1>7, <1>8 DEF Inv

-----------------------------------------------------------------------------
(* The theorems *)

LEMMA InvInitially == Init => Inv
<1> SUFFICES ASSUME Init PROVE Inv
  OBVIOUS
<1>1. PICK s \in Schedules : dispatcher = [g \in Gateways |->
            [pc |-> "idle", todo |-> {}, schedule |-> s, claimed |-> NoRecord]]
  BY DEF Init
<1>2. \A g \in Gateways : dispatcher[g] \in DispatcherRecord /\ dispatcher[g].pc = "idle"
  BY <1>1, NoRecordType DEF DispatcherRecord
<1>3. schedulesKv \in [Schedules -> Record] /\ queued \in [Schedules -> Nat]
  BY NoRecordType DEF Init
<1>4. dispatcher \in [Gateways -> DispatcherRecord]
  BY <1>1, <1>2
<1>5. faultsLeft \in 0..MaxFaults
  BY ScheduleAssumption DEF Init
<1> QED BY <1>2, <1>3, <1>4, <1>5 DEF Inv, TypeOK, ClaimStands

LEMMA InvKept == Inv /\ [Next]_vars => Inv'
<1> SUFFICES ASSUME Inv, [Next]_vars PROVE Inv'
  OBVIOUS
<1>1. ASSUME NEW s \in Schedules, CreateSchedule(s) \/ DeleteSchedule(s) PROVE Inv'
  BY <1>1, ApiStep
<1>2. ASSUME NEW g \in Gateways, LoopStep(g) \/ GatewayCrash(g) PROVE Inv'
  BY <1>2, ScanStep, FetchStep, ClaimStep, SubmitStep, FinalizeStep, ReleaseStep DEF LoopStep
<1>3. CASE Tick
  BY <1>3, TickStep
<1>4. CASE UNCHANGED vars
  BY <1>4 DEF vars, Inv, TypeOK, ClaimStands
<1> QED BY <1>1, <1>2, <1>3, <1>4 DEF Next

\* Records, loops, queue and faults keep their types in every instance.
THEOREM ScheduleTypes == Spec => []TypeOK
<1>1. Inv => TypeOK
  BY DEF Inv
<1> QED BY <1>1, InvInitially, InvKept, PTL DEF Spec

\* One step of ClosedStaysClosed.
Closed(s) ==
    /\ schedulesKv[s].state = "deleted" => schedulesKv'[s].state = "deleted"
    /\ schedulesKv[s].state = "COMPLETED" => schedulesKv'[s].state \in {"COMPLETED", "deleted"}

\* An update by a loop that holds a claim finds its record active or is refused.
LEMMA UpdateCloses ==
    ASSUME Inv, NEW g \in Gateways, dispatcher[g].pc \notin {"idle", "scan"},
           NEW rec \in Record, NEW ok \in BOOLEAN,
           Update(dispatcher[g].schedule, rec, dispatcher[g].claimed.revision, ok)
    PROVE  \A s \in Schedules : Closed(s)
<1> DEFINE d == dispatcher[g]
<1>1. /\ TypeOK /\ ClaimStands(g) /\ d.schedule \in Schedules
      /\ d.claimed.revision \in Nat
  BY ClaimFacts
<1>2. \A t \in Schedules \ {d.schedule} : schedulesKv'[t] = schedulesKv[t]
  BY <1>1, UpdateStores
<1>3. \/ schedulesKv'[d.schedule] = schedulesKv[d.schedule]
      \/ d.claimed.revision = schedulesKv[d.schedule].revision
  BY <1>1, UpdateStores
<1>4. \/ schedulesKv'[d.schedule] = schedulesKv[d.schedule]
      \/ schedulesKv[d.schedule].state = "ACTIVE"
  BY <1>1, <1>3 DEF ClaimStands
<1> QED BY <1>2, <1>4 DEF Closed

LEMMA StepCloses ==
    ASSUME Inv, [Next]_vars, NEW s \in Schedules
    PROVE  Closed(s)
<1>1. CASE UNCHANGED schedulesKv
  BY <1>1 DEF Closed
<1>2. ASSUME NEW t \in Schedules, CreateSchedule(t) PROVE Closed(s)
  <2>1. PICK rec \in Record, ok \in BOOLEAN : Applies(t, rec, ok)
    BY <1>2, NewRecordType DEF CreateSchedule
  <2>2. schedulesKv[t].state = "absent" /\ \A u \in Schedules \ {t} : schedulesKv'[u] = schedulesKv[u]
    BY <1>2, <2>1, AppliesStores DEF Inv, CreateSchedule
  <2> QED BY <2>2 DEF Closed
<1>3. ASSUME NEW t \in Schedules, DeleteSchedule(t) PROVE Closed(s)
  <2> DEFINE rec == [schedulesKv[t] EXCEPT !.state = "deleted"]
  <2>1. rec \in Record /\ rec.state = "deleted"
    BY DEF Inv, TypeOK, Record
  <2>2. PICK ok \in BOOLEAN : Applies(t, rec, ok)
    BY <1>3 DEF DeleteSchedule
  <2> HIDE DEF rec
  <2>3. /\ \A u \in Schedules \ {t} : schedulesKv'[u] = schedulesKv[u]
        /\ schedulesKv'[t] = schedulesKv[t] \/ schedulesKv'[t].state = "deleted"
    BY <2>1, <2>2, AppliesStores DEF Inv
  <2> QED BY <2>3 DEF Closed
<1>4. ASSUME NEW g \in Gateways, Claim(g) \/ Finalize(g) \/ Release(g) PROVE Closed(s)
  <2>1. dispatcher[g].pc \notin {"idle", "scan"}
    BY <1>4 DEF Claim, Finalize, Release, At
  <2>2. dispatcher[g].schedule \in Schedules /\ dispatcher[g].claimed \in Record
    BY <2>1, ClaimFacts
  <2>3. /\ Advanced(dispatcher[g].claimed) \in Record
        /\ Released(dispatcher[g].claimed) \in Record
    BY <2>2, AdvancedType DEF Released, Record
  <2>4. PICK rec \in Record, ok \in BOOLEAN :
            Update(dispatcher[g].schedule, rec, dispatcher[g].claimed.revision, ok)
    BY <1>4, <2>2, <2>3 DEF Claim, Finalize, Release, ClaimedRevision
  <2> QED BY <2>1, <2>4, UpdateCloses
<1>5. CASE Tick
  <2>1. schedulesKv'[s] = Later(schedulesKv[s]) /\ schedulesKv[s] \in Record
    BY <1>5 DEF Tick, Inv, TypeOK
  <2> QED BY <2>1, LaterKeeps DEF Closed
<1>6. CASE UNCHANGED vars
  BY <1>1, <1>6 DEF vars
<1> QED BY <1>1, <1>2, <1>3, <1>4, <1>5, <1>6
        DEF Next, LoopStep, Scan, Fetch, PutRunSnapshot, PublishJob, GatewayCrash

\* A schedule that was completed or deleted is never active again, whatever
\* the loops of any number of gateways still hold.
THEOREM ClosedSchedulesStayClosed == Spec => ClosedStaysClosed
<1>1. Inv /\ [Next]_vars => [\A s \in Schedules : Closed(s)]_vars
  BY StepCloses
<1> QED BY <1>1, InvInitially, InvKept, PTL DEF Spec, ClosedStaysClosed, Closed

-----------------------------------------------------------------------------
(* What is recorded, and when it comes next *)

\* A record's next run lies on the grid its anchor starts: it is the anchor
\* while that is to come, and no more than an interval away afterwards.
Aligned(rec) ==
    rec.schedule_type = "interval" =>
        /\ rec.start_at > 0 => rec.next_run_at = rec.start_at
        /\ rec.next_run_at > 0 =>
            /\ \E m \in Int : rec.next_run_at - rec.start_at = m * Interval
            /\ rec.start_at <= 0 => rec.next_run_at <= Interval

\* A record that n queued jobs justify.
Good(rec, n) ==
    /\ rec.dispatch_count <= n
    /\ rec.state = "COMPLETED" => n > 0
    /\ Aligned(rec)

\* The records in the bucket and those the loops are about to store are good,
\* and the dispatch a loop is about to record is one more job.
Sound ==
    /\ \A s \in Schedules : Good(schedulesKv[s], queued[s])
    /\ \A g \in Gateways : dispatcher[g].pc \notin {"idle", "scan"} =>
        LET d == dispatcher[g] IN
        /\ Good(d.claimed, queued[d.schedule])
        /\ d.pc = "finalize" => d.claimed.dispatch_count < queued[d.schedule]

\* Two records that differ in their revision and lease at most.
Like(rec, other) ==
    /\ rec.state = other.state /\ rec.schedule_type = other.schedule_type
    /\ rec.next_run_at = other.next_run_at /\ rec.start_at = other.start_at
    /\ rec.dispatch_count = other.dispatch_count

LEMMA GoodLike ==
    ASSUME NEW rec \in Record, NEW other \in Record, Like(rec, other),
           NEW n \in Nat, Good(other, n)
    PROVE  Good(rec, n)
  BY DEF Like, Good, Aligned

LEMMA GoodGrows ==
    ASSUME NEW rec \in Record, NEW n \in Nat, NEW m \in Nat, m >= n, Good(rec, n)
    PROVE  Good(rec, m)
<1>1. rec.dispatch_count \in Nat
  BY DEF Record
<1> QED BY <1>1 DEF Good

\* The next occurrence is a whole number of intervals after the anchor.
LEMMA NextRunOnGrid ==
    ASSUME NEW anchor \in Int, NEW interval \in Nat \ {0}, NEW now \in Int
    PROVE  \E m \in Int : ComputeIntervalNextRunAt(anchor, interval, now) - anchor = m * interval
<1>1. CASE anchor > now
  <2>1. ComputeIntervalNextRunAt(anchor, interval, now) - anchor = 0 * interval
    BY <1>1 DEF ComputeIntervalNextRunAt
  <2> QED BY <2>1
<1>2. CASE ~(anchor > now)
  <2> DEFINE m == (now - anchor) \div interval + 1
  <2>1. m \in Int
    OBVIOUS
  <2>2. ComputeIntervalNextRunAt(anchor, interval, now) = anchor + m * interval
    BY <1>2 DEF ComputeIntervalNextRunAt
  <2> HIDE DEF m
  <2>3. m * interval \in Int
    BY <2>1
  <2> QED BY <2>1, <2>2, <2>3
<1> QED BY <1>1, <1>2

LEMMA GoodNew ==
    ASSUME NEW rec \in NewRecords, NEW n \in Nat
    PROVE  Good(rec, n)
<1>1. CASE \E at \in 1..MaxDelay : rec = Unclaimed("ACTIVE", "once", at, 0)
  BY <1>1 DEF Good, Aligned, Unclaimed
<1>2. CASE \E at \in (1 - Interval)..MaxDelay :
            rec = Unclaimed("ACTIVE", "interval", ComputeIntervalNextRunAt(at, Interval, -1), at)
  <2>1. PICK at \in (1 - Interval)..MaxDelay :
            rec = Unclaimed("ACTIVE", "interval", ComputeIntervalNextRunAt(at, Interval, -1), at)
    BY <1>2
  <2>2. at \in Int /\ Interval \in Nat \ {0} /\ -1 \in Int
    BY ScheduleAssumption
  <2> DEFINE next == ComputeIntervalNextRunAt(at, Interval, -1)
  <2>3. \E m \in Int : next - at = m * Interval
    BY <2>2, NextRunOnGrid
  <2>4. at <= -1 => next <= -1 + Interval
    BY <2>2, NextRunIsNext
  <2>5. at > -1 => next = at
    BY <2>2 DEF ComputeIntervalNextRunAt
  <2>6. next \in Int
    BY <2>2, NextRunIsNext
  <2> HIDE DEF next
  <2>7. /\ rec.state = "ACTIVE" /\ rec.dispatch_count = 0
        /\ rec.next_run_at = next /\ rec.start_at = at
    BY <2>1 DEF Unclaimed, next
  <2>8. Aligned(rec)
    BY <2>2, <2>3, <2>4, <2>5, <2>6, <2>7 DEF Aligned
  <2> QED BY <2>7, <2>8 DEF Good
<1> QED BY <1>1, <1>2 DEF NewRecords

\* Recording a dispatch that has put a job into the queue.
LEMMA GoodAdvanced ==
    ASSUME NEW rec \in Record, NEW n \in Nat, Good(rec, n), rec.dispatch_count < n,
           rec.state = "ACTIVE"
    PROVE  Good(Advanced(rec), n)
<1>1. rec.dispatch_count \in Nat /\ rec.start_at \in Int /\ Interval \in Nat \ {0}
  BY ScheduleAssumption DEF Record
<1>2. CASE rec.schedule_type = "once"
  <2> DEFINE count == rec.dispatch_count + 1
             new == [rec EXCEPT !.dispatch_count = count, !.lease_until = 0, !.state = "COMPLETED"]
  <2>1. Advanced(rec) = new
    BY <1>2 DEF Advanced
  <2>2. count <= n /\ n > 0
    BY <1>1
  <2> HIDE DEF count
  <2>3. new.dispatch_count = count /\ new.schedule_type = "once"
    BY <1>2 DEF Record
  <2> HIDE DEF new
  <2> QED BY <2>1, <2>2, <2>3 DEF Good, Aligned
<1>3. CASE rec.schedule_type # "once"
  <2> DEFINE count == rec.dispatch_count + 1
             next == ComputeIntervalNextRunAt(rec.start_at, Interval, 0)
             new == [rec EXCEPT !.dispatch_count = count, !.lease_until = 0, !.next_run_at = next]
  <2>1. Advanced(rec) = new
    BY <1>3 DEF Advanced
  <2>2. count <= n
    BY <1>1
  <2>3. \E m \in Int : next - rec.start_at = m * Interval
    <3>1. 0 \in Int
      OBVIOUS
    <3> QED BY <1>1, <3>1, NextRunOnGrid
  <2>4. next \in Int /\ (rec.start_at <= 0 => next <= Interval)
    <3>1. ASSUME NEW anchor \in Int, NEW now \in Int
          PROVE  /\ ComputeIntervalNextRunAt(anchor, Interval, now) \in Int
                 /\ anchor <= now =>
                        ComputeIntervalNextRunAt(anchor, Interval, now) <= now + Interval
      BY <1>1, NextRunIsNext
    <3>2. 0 \in Int
      OBVIOUS
    <3>3. next \in Int /\ (rec.start_at <= 0 => next <= 0 + Interval)
      BY <1>1, <3>1, <3>2
    <3> HIDE DEF next
    <3> QED BY <1>1, <3>3
  <2>5. rec.start_at > 0 => next = rec.start_at
    BY <1>1 DEF ComputeIntervalNextRunAt
  <2> HIDE DEF count, next
  <2>6. /\ new.dispatch_count = count /\ new.next_run_at = next
        /\ new.start_at = rec.start_at /\ new.state = "ACTIVE"
    BY DEF Record
  <2> HIDE DEF new
  <2>7. Aligned(new)
    BY <2>3, <2>4, <2>5, <2>6 DEF Aligned
  <2> QED BY <2>1, <2>2, <2>6, <2>7 DEF Good
<1> QED BY <1>2, <1>3

\* Time moves an anchor and the occurrence it leads to together; an anchor that
\* falls behind the grid's current stretch moves to the next point of the grid.
LEMMA GoodLater ==
    ASSUME NEW rec \in Record, NEW n \in Nat, Good(rec, n)
    PROVE  Good(Later(rec), n)
<1> DEFINE next == IF rec.next_run_at > 0 THEN rec.next_run_at - 1 ELSE 0
           lease == IF rec.lease_until > 0 THEN rec.lease_until - 1 ELSE 0
           start == IF rec.schedule_type = "once" THEN rec.start_at
                    ELSE IF rec.start_at = 1 - Interval THEN 0 ELSE rec.start_at - 1
           new == [rec EXCEPT !.next_run_at = next, !.lease_until = lease, !.start_at = start]
<1>1. Later(rec) = IF rec.state # "ACTIVE" THEN rec ELSE new
  BY DEF Later
<1>2. /\ rec.next_run_at \in Int /\ rec.start_at \in Int /\ Interval \in Nat \ {0}
      /\ rec.schedule_type \in {"once", "interval"}
  BY ScheduleAssumption DEF Record
<1>3. CASE rec.state = "ACTIVE" /\ rec.schedule_type = "interval"
  <2>1. rec.next_run_at > 0 => \E m \in Int : next - start = m * Interval
    <3>1. SUFFICES ASSUME rec.next_run_at > 0 PROVE \E m \in Int : next - start = m * Interval
      OBVIOUS
    <3>2. PICK m \in Int : rec.next_run_at - rec.start_at = m * Interval
      BY <1>3, <3>1 DEF Good, Aligned
    <3>3. CASE rec.start_at = 1 - Interval
      <4>1. next - start = (m - 1) * Interval
        <5>1. next - start = rec.next_run_at - 1
          BY <1>2, <1>3, <3>1, <3>3
        <5>2. (m - 1) * Interval = m * Interval - Interval /\ m * Interval \in Int
          BY <1>2
        <5> HIDE DEF next, start
        <5> QED BY <1>2, <3>2, <3>3, <5>1, <5>2
      <4> QED BY <4>1
    <3>4. CASE rec.start_at # 1 - Interval
      <4>1. next - start = rec.next_run_at - rec.start_at
        BY <1>2, <1>3, <3>1, <3>4
      <4> HIDE DEF next, start
      <4> QED BY <3>2, <4>1
    <3> QED BY <3>3, <3>4
  <2>2. start <= 0 => next <= Interval
    BY <1>2, <1>3 DEF Good, Aligned
  <2>3. start > 0 => next = start
    BY <1>2, <1>3 DEF Good, Aligned
  <2>4. next > 0 => rec.next_run_at > 0
    BY <1>2
  <2> HIDE DEF next, start, lease
  <2>5. /\ new.dispatch_count = rec.dispatch_count /\ new.state = "ACTIVE"
        /\ new.next_run_at = next /\ new.start_at = start
    BY <1>3 DEF Record
  <2> HIDE DEF new
  <2>6. Aligned(new)
    BY <2>1, <2>2, <2>3, <2>4, <2>5 DEF Aligned
  <2> QED BY <1>1, <1>3, <2>5, <2>6 DEF Good
<1>4. CASE rec.state = "ACTIVE" /\ rec.schedule_type = "once"
  <2> HIDE DEF next, start, lease
  <2>1. /\ new.dispatch_count = rec.dispatch_count /\ new.state = "ACTIVE"
        /\ new.schedule_type = "once"
    BY <1>4 DEF Record
  <2> HIDE DEF new
  <2> QED BY <1>1, <1>4, <2>1 DEF Good, Aligned
<1>5. CASE rec.state # "ACTIVE"
  BY <1>1, <1>5
<1> QED BY <1>2, <1>3, <1>4, <1>5

\* The records the loops and the API store leave a good bucket.
LEMMA StoresLike ==
    ASSUME TypeOK, NEW s \in Schedules, NEW rec \in Record, NEW ok \in BOOLEAN,
           Applies(s, rec, ok)
    PROVE  schedulesKv'[s] = schedulesKv[s] \/ Like(schedulesKv'[s], rec)
<1> DEFINE revision == schedulesKv[s].revision + 1
           new == [rec EXCEPT !.revision = revision]
<1>1. CASE Store(s, rec)
  <2>1. schedulesKv' = [schedulesKv EXCEPT ![s] = new]
    BY <1>1 DEF Store
  <2> HIDE DEF revision
  <2>2. Like(new, rec)
    BY DEF Like, Record
  <2> HIDE DEF new
  <2> QED BY <2>1, <2>2 DEF TypeOK
<1>2. CASE UNCHANGED schedulesKv
  BY <1>2
<1> QED BY <1>1, <1>2 DEF Applies

LEMMA BucketStaysGood ==
    ASSUME TypeOK, Sound, UNCHANGED queued,
           NEW s \in Schedules, NEW rec \in Record, Good(rec, queued[s]), NEW ok \in BOOLEAN,
           Applies(s, rec, ok) \/ \E last \in Nat : Update(s, rec, last, ok)
    PROVE  \A t \in Schedules : Good(schedulesKv'[t], queued'[t])
<1>1. Applies(s, rec, ok) \/ UNCHANGED schedulesKv
  BY DEF Update
<1>2. CASE Applies(s, rec, ok)
  <2>1. schedulesKv' \in [Schedules -> Record]
        /\ \A t \in Schedules \ {s} : schedulesKv'[t] = schedulesKv[t]
    BY <1>2, AppliesStores
  <2>2. schedulesKv'[s] = schedulesKv[s] \/ Like(schedulesKv'[s], rec)
    BY <1>2, StoresLike
  <2>3. queued[s] \in Nat /\ schedulesKv'[s] \in Record
    BY <2>1 DEF TypeOK
  <2>4. Good(schedulesKv'[s], queued[s])
    BY <2>2, <2>3, GoodLike DEF Sound
  <2> QED BY <2>1, <2>4 DEF Sound
<1>3. CASE UNCHANGED schedulesKv
  BY <1>3 DEF Sound
<1> QED BY <1>1, <1>2, <1>3

\* What is good of the loops when one of them moves and no job is added.
LEMMA LoopsStayGood ==
    ASSUME Sound, UNCHANGED queued, NEW g \in Gateways,
           \A h \in Gateways \ {g} : dispatcher'[h] = dispatcher[h],
           \A s \in Schedules : Good(schedulesKv'[s], queued'[s]),
           dispatcher'[g].pc \notin {"idle", "scan"} =>
               /\ Good(dispatcher'[g].claimed, queued[dispatcher'[g].schedule])
               /\ dispatcher'[g].pc = "finalize" =>
                    dispatcher'[g].claimed.dispatch_count < queued[dispatcher'[g].schedule]
    PROVE  Sound'
<1>1. ASSUME NEW h \in Gateways, dispatcher'[h].pc \notin {"idle", "scan"}
      PROVE  /\ Good(dispatcher'[h].claimed, queued'[dispatcher'[h].schedule])
             /\ dispatcher'[h].pc = "finalize" =>
                    dispatcher'[h].claimed.dispatch_count < queued'[dispatcher'[h].schedule]
  BY <1>1 DEF Sound
<1> QED BY <1>1 DEF Sound

\* What a loop that holds a claim has to store.
LEMMA ClaimIsGood ==
    ASSUME Inv, Sound, NEW g \in Gateways, dispatcher[g].pc \notin {"idle", "scan"}
    PROVE  LET d == dispatcher[g] IN
           /\ queued[d.schedule] \in Nat
           /\ Good(d.claimed, queued[d.schedule])
           /\ Released(d.claimed) \in Record /\ Good(Released(d.claimed), queued[d.schedule])
           /\ d.pc = "finalize" => Good(Advanced(d.claimed), queued[d.schedule])
<1> DEFINE d == dispatcher[g]
           n == queued[d.schedule]
<1>1. /\ d.claimed \in Record /\ d.claimed.state = "ACTIVE" /\ n \in Nat
  BY ClaimFacts DEF TypeOK
<1>2. Good(d.claimed, n)
  BY DEF Sound
<1>3. Released(d.claimed) \in Record /\ Like(Released(d.claimed), d.claimed)
  BY <1>1 DEF Released, Record, Like
<1>4. Good(Released(d.claimed), n)
  BY <1>1, <1>2, <1>3, GoodLike
<1>5. ASSUME d.pc = "finalize" PROVE Good(Advanced(d.claimed), n)
  <2>1. d.claimed.dispatch_count < n
    BY <1>5 DEF Sound
  <2> QED BY <1>1, <1>2, <2>1, GoodAdvanced
<1> QED BY <1>1, <1>2, <1>3, <1>4, <1>5

LEMMA SoundApi ==
    ASSUME Inv, Sound, NEW s \in Schedules, CreateSchedule(s) \/ DeleteSchedule(s)
    PROVE  Sound'
<1>1. UNCHANGED <<dispatcher, queued>> /\ TypeOK /\ queued[s] \in Nat
  BY DEF CreateSchedule, DeleteSchedule, Inv, TypeOK
<1>2. PICK rec \in Record, ok \in BOOLEAN : Applies(s, rec, ok) /\ Good(rec, queued[s])
  <2>1. CASE CreateSchedule(s)
    BY <1>1, <2>1, NewRecordType, GoodNew DEF CreateSchedule
  <2>2. CASE DeleteSchedule(s)
    <3> DEFINE rec == [schedulesKv[s] EXCEPT !.state = "deleted"]
    <3>1. schedulesKv[s] \in Record /\ Good(schedulesKv[s], queued[s])
      BY <1>1 DEF TypeOK, Sound
    <3>2. rec \in Record /\ Good(rec, queued[s])
      BY <3>1 DEF Record, Good, Aligned
    <3>3. PICK ok \in BOOLEAN : Applies(s, rec, ok)
      BY <2>2 DEF DeleteSchedule
    <3> QED BY <3>2, <3>3
  <2> QED BY <2>1, <2>2
<1>3. \A t \in Schedules : Good(schedulesKv'[t], queued'[t])
  BY <1>1, <1>2, BucketStaysGood
<1> QED BY <1>1, <1>3 DEF Sound

LEMMA SoundScan ==
    ASSUME Inv, Sound, NEW g \in Gateways, Scan(g) \/ GatewayCrash(g)
    PROVE  Sound'
<1>1. UNCHANGED <<schedulesKv, queued>> /\ TypeOK
  BY DEF Scan, GatewayCrash, Inv
<1>2. PICK todo \in SUBSET Schedules : NextKey(g, todo)
  <2>1. CASE Scan(g)
    BY <2>1 DEF Scan
  <2>2. CASE GatewayCrash(g)
    BY <2>2 DEF GatewayCrash
  <2> QED BY <2>1, <2>2
<1>3. /\ dispatcher'[g].pc \in {"idle", "scan"}
      /\ \A h \in Gateways \ {g} : dispatcher'[h] = dispatcher[h]
  BY <1>1, <1>2, NextKeyMoves
<1>4. \A s \in Schedules : Good(schedulesKv'[s], queued'[s])
  BY <1>1 DEF Sound
<1> QED BY <1>1, <1>3, <1>4, LoopsStayGood

LEMMA SoundFetch ==
    ASSUME Inv, Sound, NEW g \in Gateways, NEW s \in Schedules, Fetch(g, s)
    PROVE  Sound'
<1> DEFINE rec == schedulesKv[s]
           todo == dispatcher[g].todo \ {s}
           claimed == [rec EXCEPT !.lease_until = Lease]
           claim == [pc |-> "claim", todo |-> todo, schedule |-> s, claimed |-> claimed]
<1>1. UNCHANGED <<schedulesKv, queued>> /\ TypeOK
  BY DEF Fetch, Inv
<1>2. rec \in Record /\ todo \in SUBSET Schedules /\ queued[s] \in Nat /\ Good(rec, queued[s])
  BY <1>1 DEF TypeOK, DispatcherRecord, Sound
<1>3. \A t \in Schedules : Good(schedulesKv'[t], queued'[t])
  BY <1>1 DEF Sound
<1>4. CASE dispatcher' = [dispatcher EXCEPT ![g] = claim]
  <2>1. Lease \in Int
    BY ScheduleAssumption
  <2>2. claimed \in Record /\ Like(claimed, rec)
    BY <1>2, <2>1 DEF Record, Like
  <2>3. Good(claimed, queued[s])
    BY <1>2, <2>2, GoodLike
  <2> HIDE DEF claimed
  <2>4. /\ dispatcher'[g].pc = "claim" /\ dispatcher'[g].schedule = s
        /\ dispatcher'[g].claimed = claimed
        /\ \A h \in Gateways \ {g} : dispatcher'[h] = dispatcher[h]
    BY <1>1, <1>4 DEF TypeOK
  <2> QED BY <1>1, <1>3, <2>3, <2>4, LoopsStayGood
<1>5. CASE NextKey(g, todo)
  <2>1. /\ dispatcher'[g].pc \in {"idle", "scan"}
        /\ \A h \in Gateways \ {g} : dispatcher'[h] = dispatcher[h]
    BY <1>1, <1>2, <1>5, NextKeyMoves
  <2> QED BY <1>1, <1>3, <2>1, LoopsStayGood
<1> QED BY <1>4, <1>5 DEF Fetch

LEMMA SoundClaim ==
    ASSUME Inv, Sound, NEW g \in Gateways, Claim(g)
    PROVE  Sound'
<1> DEFINE d == dispatcher[g]
           s == d.schedule
           owned == [d EXCEPT !.pc = "put", !.claimed.revision = @ + 1]
<1>1. d.pc = "claim" /\ UNCHANGED queued
  BY DEF Claim, At
<1>2. /\ TypeOK /\ d \in DispatcherRecord /\ s \in Schedules /\ d.todo \in SUBSET Schedules
      /\ d.claimed \in Record /\ d.claimed.revision \in Nat
  BY <1>1, ClaimFacts
<1>3. queued[s] \in Nat /\ Good(d.claimed, queued[s])
  BY <1>1, ClaimIsGood
<1>4. PICK ok \in BOOLEAN :
        /\ Update(s, d.claimed, d.claimed.revision, ok)
        /\ IF ok THEN dispatcher' = [dispatcher EXCEPT ![g] = owned] ELSE NextKey(g, d.todo)
  BY DEF Claim
<1>5. \A t \in Schedules : Good(schedulesKv'[t], queued'[t])
  BY <1>1, <1>2, <1>3, <1>4, BucketStaysGood
<1>6. CASE ok
  <2> DEFINE new == [d.claimed EXCEPT !.revision = d.claimed.revision + 1]
  <2>1. d.claimed.revision + 1 \in Nat
    BY <1>2
  <2>2. new \in Record /\ Like(new, d.claimed)
    BY <1>2, <2>1 DEF Record, Like
  <2>3. Good(new, queued[s])
    BY <1>2, <1>3, <2>2, GoodLike
  <2>4. owned = [d EXCEPT !.pc = "put", !.claimed = new]
    BY <1>2 DEF DispatcherRecord
  <2> HIDE DEF new, owned
  <2>5. owned.pc = "put" /\ owned.schedule = s /\ owned.claimed = new
    BY <1>2, <2>4 DEF DispatcherRecord
  <2>6. /\ dispatcher'[g] = owned
        /\ \A h \in Gateways \ {g} : dispatcher'[h] = dispatcher[h]
    BY <1>2, <1>4, <1>6 DEF TypeOK
  <2> QED BY <1>1, <1>5, <2>3, <2>5, <2>6, LoopsStayGood
<1>7. CASE ~ok
  <2>1. /\ dispatcher'[g].pc \in {"idle", "scan"}
        /\ \A h \in Gateways \ {g} : dispatcher'[h] = dispatcher[h]
    BY <1>2, <1>4, <1>7, NextKeyMoves
  <2> QED BY <1>1, <1>5, <2>1, LoopsStayGood
<1> QED BY <1>6, <1>7

\* A loop gets to record a dispatch only when its own publish added the job.
LEMMA SoundSubmit ==
    ASSUME Inv, Sound, NEW g \in Gateways, PutRunSnapshot(g) \/ PublishJob(g)
    PROVE  Sound'
<1> DEFINE d == dispatcher[g]
           s == d.schedule
<1>1. TypeOK /\ UNCHANGED schedulesKv
  BY DEF Inv, PutRunSnapshot, PublishJob
<1>2. d.pc \in {"put", "publish"}
  BY DEF PutRunSnapshot, PublishJob, At
<1>3. s \in Schedules /\ queued[s] \in Nat /\ Good(d.claimed, queued[s]) /\ d.claimed \in Record
  BY <1>2, ClaimFacts, ClaimIsGood
<1>4. CASE PutRunSnapshot(g)
  <2>1. PICK pc \in {"publish", "release"} : Goto(g, pc)
    BY <1>4 DEF PutRunSnapshot
  <2>2. /\ dispatcher'[g].schedule = s /\ dispatcher'[g].claimed = d.claimed
        /\ \A h \in Gateways \ {g} : dispatcher'[h] = dispatcher[h]
    BY <1>1, <2>1, GotoMoves
  <2>3. dispatcher'[g].pc # "finalize"
    BY <1>1, <2>1 DEF Goto, TypeOK, DispatcherRecord
  <2>4. UNCHANGED queued /\ \A t \in Schedules : Good(schedulesKv'[t], queued'[t])
    BY <1>1, <1>4 DEF PutRunSnapshot, Sound
  <2> QED BY <1>3, <2>2, <2>3, <2>4, LoopsStayGood
<1>5. CASE PublishJob(g)
  <2>1. PICK ok, applied \in BOOLEAN :
        /\ ok => applied
        /\ queued' = IF applied THEN [queued EXCEPT ![s] = @ + 1] ELSE queued
        /\ Goto(g, IF ok THEN "finalize" ELSE "release")
    BY <1>5 DEF PublishJob, AfterSubmit
  <2>2. /\ dispatcher'[g].schedule = s /\ dispatcher'[g].claimed = d.claimed
        /\ \A h \in Gateways \ {g} : dispatcher'[h] = dispatcher[h]
    <3>1. PICK pc \in {"finalize", "release"} : Goto(g, pc)
      BY <2>1
    <3> QED BY <1>1, <3>1, GotoMoves
  <2>3. dispatcher'[g].pc = "finalize" => ok
    BY <1>1, <2>1 DEF Goto, TypeOK, DispatcherRecord
  <2>4. /\ queued' \in [Schedules -> Nat]
        /\ \A t \in Schedules : queued'[t] >= queued[t]
        /\ ok => queued'[s] = queued[s] + 1
    BY <1>1, <1>3, <2>1 DEF TypeOK
  <2>5. ASSUME NEW t \in Schedules PROVE Good(schedulesKv'[t], queued'[t])
    <3>1. /\ schedulesKv[t] \in Record /\ Good(schedulesKv[t], queued[t])
          /\ queued[t] \in Nat /\ queued'[t] \in Nat /\ queued'[t] >= queued[t]
      BY <1>1, <2>4 DEF TypeOK, Sound
    <3> QED BY <1>1, <3>1, GoodGrows
  <2>6. ASSUME NEW h \in Gateways, dispatcher'[h].pc \notin {"idle", "scan"}
        PROVE  /\ Good(dispatcher'[h].claimed, queued'[dispatcher'[h].schedule])
               /\ dispatcher'[h].pc = "finalize" =>
                    dispatcher'[h].claimed.dispatch_count < queued'[dispatcher'[h].schedule]
    <3>1. CASE h = g
      <4>1. Good(d.claimed, queued'[s])
        BY <1>3, <2>4, GoodGrows
      <4>2. ok => d.claimed.dispatch_count < queued'[s]
        BY <1>3, <2>4 DEF Good, Record
      <4> QED BY <2>2, <2>3, <3>1, <4>1, <4>2
    <3>2. CASE h # g
      <4> DEFINE t == dispatcher[h].schedule
      <4>1. dispatcher'[h] = dispatcher[h]
        BY <2>2, <3>2
      <4>2. /\ t \in Schedules /\ dispatcher[h].claimed \in Record
            /\ Good(dispatcher[h].claimed, queued[t])
            /\ dispatcher[h].pc = "finalize" => dispatcher[h].claimed.dispatch_count < queued[t]
        BY <2>6, <4>1, ClaimFacts DEF Sound
      <4>3. queued[t] \in Nat /\ queued'[t] \in Nat /\ queued'[t] >= queued[t]
        BY <1>1, <2>4, <4>2 DEF TypeOK
      <4>4. dispatcher[h].claimed.dispatch_count \in Nat
        BY <4>2 DEF Record
      <4>5. Good(dispatcher[h].claimed, queued'[t])
        BY <4>2, <4>3, GoodGrows
      <4> QED BY <4>1, <4>2, <4>3, <4>4, <4>5
    <3> QED BY <3>1, <3>2
  <2> QED BY <2>5, <2>6 DEF Sound
<1> QED BY <1>4, <1>5

LEMMA SoundFinalize ==
    ASSUME Inv, Sound, NEW g \in Gateways, Finalize(g) \/ Release(g)
    PROVE  Sound'
<1> DEFINE d == dispatcher[g]
           s == d.schedule
<1>1. d.pc \in {"finalize", "release"} /\ UNCHANGED queued
  BY DEF Finalize, Release, At
<1>2. /\ TypeOK /\ s \in Schedules /\ d.todo \in SUBSET Schedules
      /\ d.claimed \in Record /\ d.claimed.revision \in Nat
  BY <1>1, ClaimFacts
<1>3. Good(d.claimed, queued[s])
  BY <1>1, ClaimIsGood
<1>4. PICK rec \in Record, ok \in BOOLEAN :
        Update(s, rec, d.claimed.revision, ok) /\ Good(rec, queued[s])
  <2>1. CASE Finalize(g)
    <3>1. Advanced(d.claimed) \in Record /\ Good(Advanced(d.claimed), queued[s])
      BY <1>2, <2>1, AdvancedType, ClaimIsGood DEF Finalize, At
    <3>2. PICK ok \in BOOLEAN : Update(s, Advanced(d.claimed), d.claimed.revision, ok)
      BY <2>1 DEF Finalize, ClaimedRevision
    <3> QED BY <3>1, <3>2
  <2>2. CASE Release(g)
    <3>1. Released(d.claimed) \in Record /\ Good(Released(d.claimed), queued[s])
      BY <1>1, ClaimIsGood
    <3>2. PICK ok \in BOOLEAN : Update(s, Released(d.claimed), d.claimed.revision, ok)
      BY <2>2 DEF Release, ClaimedRevision
    <3> QED BY <3>1, <3>2
  <2> QED BY <2>1, <2>2
<1>5. \A t \in Schedules : Good(schedulesKv'[t], queued'[t])
  BY <1>1, <1>2, <1>4, BucketStaysGood
<1>6. CASE NextKey(g, d.todo)
  <2>1. /\ dispatcher'[g].pc \in {"idle", "scan"}
        /\ \A h \in Gateways \ {g} : dispatcher'[h] = dispatcher[h]
    BY <1>2, <1>6, NextKeyMoves
  <2> QED BY <1>1, <1>5, <2>1, LoopsStayGood
<1>7. CASE Goto(g, "release")
  <2>1. /\ dispatcher'[g].schedule = s /\ dispatcher'[g].claimed = d.claimed
        /\ \A h \in Gateways \ {g} : dispatcher'[h] = dispatcher[h]
    BY <1>2, <1>7, GotoMoves
  <2>2. dispatcher'[g].pc = "release"
    BY <1>2, <1>7 DEF Goto, TypeOK, DispatcherRecord
  <2> QED BY <1>1, <1>3, <1>5, <2>1, <2>2, LoopsStayGood
<1> QED BY <1>6, <1>7 DEF Finalize, Release

LEMMA SoundTick ==
    ASSUME Inv, Sound, Tick
    PROVE  Sound'
<1>1. TypeOK /\ UNCHANGED queued
  BY DEF Inv, Tick
<1>2. ASSUME NEW s \in Schedules PROVE Good(schedulesKv'[s], queued'[s])
  <2>1. schedulesKv'[s] = Later(schedulesKv[s])
    BY DEF Tick
  <2>2. schedulesKv[s] \in Record /\ queued[s] \in Nat /\ Good(schedulesKv[s], queued[s])
    BY <1>1 DEF TypeOK, Sound
  <2> QED BY <1>1, <2>1, <2>2, GoodLater
<1>3. ASSUME NEW g \in Gateways, dispatcher'[g].pc \notin {"idle", "scan"}
      PROVE  /\ Good(dispatcher'[g].claimed, queued'[dispatcher'[g].schedule])
             /\ dispatcher'[g].pc = "finalize" =>
                    dispatcher'[g].claimed.dispatch_count < queued'[dispatcher'[g].schedule]
  <2> DEFINE d == dispatcher[g]
             later == Later(d.claimed)
             new == [d EXCEPT !.claimed = later]
  <2>1. d \in DispatcherRecord /\ d.claimed \in Record /\ d.schedule \in Schedules
    BY <1>1 DEF TypeOK, DispatcherRecord
  <2>2. dispatcher'[g] = new
    BY DEF Tick
  <2>3. later.dispatch_count = d.claimed.dispatch_count
    BY <2>1 DEF Later, Record
  <2>4. queued[d.schedule] \in Nat
    BY <1>1, <2>1 DEF TypeOK
  <2>5. Good(d.claimed, queued[d.schedule]) => Good(later, queued[d.schedule])
    BY <2>1, <2>4, GoodLater
  <2> HIDE DEF later
  <2>6. new.pc = d.pc /\ new.schedule = d.schedule /\ new.claimed = later
    BY <2>1 DEF DispatcherRecord
  <2> HIDE DEF new
  <2> QED BY <1>1, <1>3, <2>2, <2>3, <2>5, <2>6 DEF Sound
<1> QED BY <1>2, <1>3 DEF Sound

LEMMA SoundInitially == Init => Sound
<1> SUFFICES ASSUME Init PROVE Sound
  OBVIOUS
<1>1. \A g \in Gateways : dispatcher[g].pc = "idle"
  BY DEF Init
<1>2. ASSUME NEW s \in Schedules PROVE Good(schedulesKv[s], queued[s])
  BY DEF Init, Good, Aligned, NoRecord, Unclaimed
<1> QED BY <1>1, <1>2 DEF Sound

LEMMA SoundAlways == Spec => [](TypeOK /\ Sound)
<1>1. Inv /\ Sound /\ [Next]_vars => Sound'
  <2> SUFFICES ASSUME Inv, Sound, [Next]_vars PROVE Sound'
    OBVIOUS
  <2>1. ASSUME NEW s \in Schedules, CreateSchedule(s) \/ DeleteSchedule(s) PROVE Sound'
    BY <2>1, SoundApi
  <2>2. ASSUME NEW g \in Gateways, LoopStep(g) \/ GatewayCrash(g) PROVE Sound'
    BY <2>2, SoundScan, SoundFetch, SoundClaim, SoundSubmit, SoundFinalize DEF LoopStep
  <2>3. CASE Tick
    BY <2>3, SoundTick
  <2>4. CASE UNCHANGED vars
    BY <2>4 DEF vars, Sound
  <2> QED BY <2>1, <2>2, <2>3, <2>4 DEF Next
<1>2. Inv => TypeOK
  BY DEF Inv
<1> QED BY <1>1, <1>2, InvInitially, InvKept, SoundInitially, PTL DEF Spec

\* A recorded dispatch was made, and a completed one-shot ran: the count that an
\* update stores was read before that loop's own job was queued.
THEOREM RecordedDispatchesWereMade == Spec => []RecordedIsQueued
<1>1. TypeOK /\ Sound => RecordedIsQueued
  BY DEF Sound, Good, RecordedIsQueued
<1> QED BY <1>1, SoundAlways, PTL

\* Interval schedules neither drift nor skip: in every instance the next run is
\* an occurrence of the anchor's grid, at most an interval away.
THEOREM SchedulesStayOnTheGrid == Spec => []OnTheGrid
<1>1. ASSUME TypeOK, Sound PROVE OnTheGrid
  <2> SUFFICES ASSUME NEW s \in Schedules, schedulesKv[s].schedule_type = "interval",
                      schedulesKv[s].next_run_at > 0
               PROVE  /\ (schedulesKv[s].next_run_at - schedulesKv[s].start_at) % Interval = 0
                      /\ schedulesKv[s].start_at <= 0 => schedulesKv[s].next_run_at <= Interval
    BY DEF OnTheGrid
  <2>1. Aligned(schedulesKv[s])
    BY <1>1 DEF Sound, Good
  <2>2. PICK m \in Int : schedulesKv[s].next_run_at - schedulesKv[s].start_at = m * Interval
    BY <2>1 DEF Aligned
  <2>3. (m * Interval) % Interval = 0
    BY MultipleOfInterval, ScheduleAssumption
  <2> QED BY <2>1, <2>2, <2>3 DEF Aligned
<1> QED BY <1>1, SoundAlways, PTL

-----------------------------------------------------------------------------
(* Which jobs are paid for *)

\* A loop is past its claim, and the key is still at the claim's revision.
Holds(g) ==
    /\ dispatcher[g].pc \in {"put", "publish", "finalize", "release"}
    /\ dispatcher[g].claimed.revision = schedulesKv[dispatcher[g].schedule].revision

\* A claim that can succeed is of a record without a lease; the lease a loop
\* holds is the one in the bucket; and a loop that has lost its claim, other than
\* to a delete, has outlived its lease.
LeaseStands(g) ==
    LET d == dispatcher[g]
        rec == schedulesKv[d.schedule] IN
    /\ d.pc = "claim" /\ d.claimed.revision = rec.revision =>
        rec.lease_until <= 0 /\ rec.dispatch_count = d.claimed.dispatch_count
    /\ Holds(g) => /\ rec.lease_until = d.claimed.lease_until
                   /\ rec.dispatch_count = d.claimed.dispatch_count
    /\ d.pc \in {"put", "publish"} /\ ~Holds(g) /\ rec.state # "deleted" =>
        d.claimed.lease_until <= 0

\* One loop at a time holds a schedule.
OneHolder ==
    \A g, h \in Gateways :
        Holds(g) /\ Holds(h) /\ dispatcher[g].schedule = dispatcher[h].schedule => g = h

Leases ==
    /\ \A g \in Gateways : LeaseStands(g)
    /\ OneHolder
    /\ \A s \in Schedules : schedulesKv[s].state = "absent" => schedulesKv[s].dispatch_count = 0

\* The loops that may queue a job for s although their lease ran out, and those
\* that have queued one and can still record it in time.
Late(s) ==
    {g \in Gateways : /\ dispatcher[g].pc \in {"claim", "put", "publish"}
                      /\ dispatcher[g].schedule = s
                      /\ dispatcher[g].claimed.lease_until <= 0}
InTime(s) ==
    {g \in Gateways : /\ dispatcher[g].pc = "finalize" /\ Holds(g)
                      /\ dispatcher[g].schedule = s
                      /\ dispatcher[g].claimed.lease_until > 0}

\* Every job that is not recorded in time is paid for, also those still to come.
Paid ==
    \A s \in Schedules : schedulesKv[s].state # "deleted" =>
        queued[s] + Cardinality(Late(s))
            <= schedulesKv[s].dispatch_count + Cardinality(InTime(s)) + (MaxFaults - faultsLeft)

\* What an update leaves, and what it costs.
LEMMA UpdateEffect ==
    ASSUME TypeOK, NEW s \in Schedules, NEW rec \in Record, NEW ok \in BOOLEAN, NEW last \in Nat,
           Update(s, rec, last, ok)
    PROVE  /\ \A t \in Schedules \ {s} : schedulesKv'[t] = schedulesKv[t]
           /\ \/ schedulesKv'[s] = schedulesKv[s] /\ ~ok
              \/ /\ last = schedulesKv[s].revision
                 /\ schedulesKv'[s].revision = schedulesKv[s].revision + 1
                 /\ schedulesKv'[s].state = rec.state
                 /\ schedulesKv'[s].lease_until = rec.lease_until
                 /\ schedulesKv'[s].dispatch_count = rec.dispatch_count
           /\ faultsLeft' <= faultsLeft
           /\ ~ok /\ last = schedulesKv[s].revision => faultsLeft' = faultsLeft - 1
<1>1. \A t \in Schedules \ {s} : schedulesKv'[t] = schedulesKv[t]
  BY UpdateStores
<1>2. faultsLeft \in Int
  BY ScheduleAssumption DEF TypeOK
<1>3. CASE last = schedulesKv[s].revision /\ Applies(s, rec, ok)
  <2>1. CASE Store(s, rec)
    <3> DEFINE revision == schedulesKv[s].revision + 1
               new == [rec EXCEPT !.revision = revision]
    <3>1. schedulesKv' = [schedulesKv EXCEPT ![s] = new]
      BY <2>1 DEF Store
    <3>2. /\ new.revision = revision /\ new.state = rec.state
          /\ new.lease_until = rec.lease_until /\ new.dispatch_count = rec.dispatch_count
      BY DEF Record
    <3> HIDE DEF new
    <3>3. schedulesKv'[s] = new
      BY <3>1 DEF TypeOK
    <3> QED BY <1>1, <1>2, <1>3, <3>2, <3>3 DEF Applies, Charge
  <2>2. CASE ~ok /\ UNCHANGED schedulesKv
    BY <1>1, <1>2, <1>3, <2>2 DEF Applies, Charge
  <2> QED BY <1>3, <2>1, <2>2 DEF Applies
<1>4. CASE last # schedulesKv[s].revision /\ ~ok /\ UNCHANGED <<schedulesKv, faultsLeft>>
  BY <1>1, <1>2, <1>4
<1> QED BY <1>3, <1>4 DEF Update

\* What a put or a delete by the API leaves.
LEMMA AppliesEffect ==
    ASSUME TypeOK, NEW s \in Schedules, NEW rec \in Record, NEW ok \in BOOLEAN,
           Applies(s, rec, ok)
    PROVE  /\ schedulesKv'[s] = schedulesKv[s]
              \/ schedulesKv'[s].dispatch_count = rec.dispatch_count
           /\ faultsLeft' <= faultsLeft
<1>1. faultsLeft \in Int
  BY ScheduleAssumption DEF TypeOK
<1>2. faultsLeft' <= faultsLeft
  BY <1>1 DEF Applies, Charge
<1> QED BY <1>2, StoresLike DEF Like

\* The numbers the arithmetic below is about.
LEMMA Numbers ==
    ASSUME TypeOK
    PROVE  /\ faultsLeft \in Int /\ MaxFaults \in Int
           /\ \A s \in Schedules : /\ queued[s] \in Nat
                                   /\ schedulesKv[s].dispatch_count \in Nat
                                   /\ schedulesKv[s].revision \in Nat
                                   /\ schedulesKv[s].lease_until \in Int
           /\ \A g \in Gateways : /\ dispatcher[g].schedule \in Schedules
                                  /\ dispatcher[g].claimed \in Record
                                  /\ dispatcher[g].claimed.revision \in Nat
                                  /\ dispatcher[g].claimed.dispatch_count \in Nat
                                  /\ dispatcher[g].claimed.lease_until \in Int
  BY ScheduleAssumption DEF TypeOK, DispatcherRecord, Record

\* The key s is left alone, or gets a new revision that takes the schedule from
\* no loop other than g in time, or deletes it.
MovesOn(s, g) ==
    \/ schedulesKv'[s] = schedulesKv[s]
    \/ /\ schedulesKv'[s].revision = schedulesKv[s].revision + 1
       /\ schedulesKv[s].state # "deleted"
       /\ \/ schedulesKv'[s].state = "deleted"
          \/ \A h \in Gateways \ {g} :
                Holds(h) /\ dispatcher[h].schedule = s => dispatcher[h].claimed.lease_until <= 0

\* What the others keep when a key moves on.
LEMMA OthersKeep ==
    ASSUME Inv, Leases, NEW s \in Schedules, NEW g, MovesOn(s, g),
           \A t \in Schedules \ {s} : schedulesKv'[t] = schedulesKv[t],
           NEW h \in Gateways, h # g, dispatcher'[h] = dispatcher[h]
    PROVE  /\ LeaseStands(h)'
           /\ Holds(h)' => Holds(h) /\ schedulesKv'[dispatcher[h].schedule]
                                            = schedulesKv[dispatcher[h].schedule]
           /\ /\ Holds(h) /\ dispatcher[h].claimed.lease_until > 0
              /\ schedulesKv'[dispatcher[h].schedule].state # "deleted"
              => Holds(h)'
<1> DEFINE t == dispatcher[h].schedule
<1>1. /\ t \in Schedules /\ dispatcher[h].claimed.revision \in Nat
      /\ schedulesKv[t].revision \in Nat /\ dispatcher[h].claimed.lease_until \in Int
  BY Numbers DEF Inv
<1>2. LeaseStands(h) /\ ClaimStands(h)
  BY DEF Inv, Leases
<1>3. CASE schedulesKv'[t] = schedulesKv[t]
  BY <1>2, <1>3 DEF LeaseStands, Holds
<1>4. CASE schedulesKv'[t] # schedulesKv[t]
  <2>1. /\ schedulesKv'[t].revision = schedulesKv[t].revision + 1
        /\ schedulesKv[t].state # "deleted"
        /\ \/ schedulesKv'[t].state = "deleted"
           \/ Holds(h) => dispatcher[h].claimed.lease_until <= 0
    BY <1>1, <1>4 DEF MovesOn
  <2>2. dispatcher[h].pc \notin {"idle", "scan"} =>
            dispatcher[h].claimed.revision # schedulesKv'[t].revision
    BY <1>1, <1>2, <2>1 DEF ClaimStands
  <2>3. ~Holds(h)'
    BY <2>2 DEF Holds
  <2>4. LeaseStands(h)'
    BY <1>2, <2>1, <2>2, <2>3 DEF LeaseStands
  <2> QED BY <1>1, <2>1, <2>3, <2>4
<1> QED BY <1>3, <1>4

\* One loop moves, and a key at most.
LEMMA LeasesMove ==
    ASSUME Inv, Leases, NEW s \in Schedules, NEW g, MovesOn(s, g),
           \A t \in Schedules \ {s} : schedulesKv'[t] = schedulesKv[t],
           schedulesKv'[s] = schedulesKv[s] \/ schedulesKv'[s].state # "absent",
           \A h \in Gateways \ {g} : dispatcher'[h] = dispatcher[h],
           g \in Gateways => LeaseStands(g)',
           g \in Gateways /\ Holds(g)' =>
                        \/ Holds(g) /\ dispatcher'[g].schedule = dispatcher[g].schedule
                        \/ /\ dispatcher'[g].schedule = s
                           /\ schedulesKv'[s] # schedulesKv[s]
    PROVE  Leases'
<1>1. \A h \in Gateways \ {g} :
        /\ LeaseStands(h)'
        /\ Holds(h)' => Holds(h) /\ schedulesKv'[dispatcher[h].schedule]
                                        = schedulesKv[dispatcher[h].schedule]
  BY OthersKeep
<1>2. \A h \in Gateways : LeaseStands(h)'
  BY <1>1
<1>3. OneHolder'
  <2> SUFFICES ASSUME NEW a \in Gateways, NEW b \in Gateways, Holds(a)', Holds(b)',
                      dispatcher'[a].schedule = dispatcher'[b].schedule, a # b
               PROVE  FALSE
    BY DEF OneHolder
  <2>1. CASE a # g /\ b # g
    BY <1>1, <2>1 DEF Leases, OneHolder
  <2>2. CASE a = g
    BY <1>1, <2>2 DEF Leases, OneHolder
  <2>3. CASE b = g
    BY <1>1, <2>3 DEF Leases, OneHolder
  <2> QED BY <2>1, <2>2, <2>3
<1>4. \A t \in Schedules : schedulesKv'[t].state = "absent" => schedulesKv'[t].dispatch_count = 0
  BY DEF Leases
<1> QED BY <1>2, <1>3, <1>4 DEF Leases

\* Removing the same element from two sets leaves the same: how they differ.
LEMMA DifferByOne ==
    ASSUME NEW S, NEW T, NEW g, IsFiniteSet(S), IsFiniteSet(T), S \ {g} = T \ {g}
    PROVE  /\ Cardinality(S) \in Nat /\ Cardinality(T) \in Nat
           /\ Cardinality(T) = Cardinality(S) + (IF g \in T THEN 1 ELSE 0)
                                              - (IF g \in S THEN 1 ELSE 0)
<1>1. Cardinality(S) \in Nat /\ Cardinality(T) \in Nat
  BY FS_CardinalityType
<1>2. Cardinality(S \ {g}) = IF g \in S THEN Cardinality(S) - 1 ELSE Cardinality(S)
  BY FS_RemoveElement
<1>3. Cardinality(T \ {g}) = IF g \in T THEN Cardinality(T) - 1 ELSE Cardinality(T)
  BY FS_RemoveElement
<1> QED BY <1>1, <1>2, <1>3

\* A set within the union of two others has at most as many elements as they have.
LEMMA UnionBound ==
    ASSUME NEW R, NEW S, NEW T, IsFiniteSet(S), IsFiniteSet(T), R \subseteq S \cup T
    PROVE  Cardinality(R) <= Cardinality(S) + Cardinality(T)
<1>1. /\ IsFiniteSet(S \cup T)
      /\ Cardinality(S \cup T) = Cardinality(S) + Cardinality(T) - Cardinality(S \cap T)
  BY FS_Union
<1>2. IsFiniteSet(R) /\ Cardinality(R) <= Cardinality(S \cup T)
  BY <1>1, FS_Subset
<1>3. IsFiniteSet(S \cap T)
  BY FS_Subset
<1>4. /\ Cardinality(R) \in Nat /\ Cardinality(S) \in Nat /\ Cardinality(T) \in Nat
      /\ Cardinality(S \cap T) \in Nat /\ Cardinality(S \cup T) \in Nat
  BY <1>1, <1>2, <1>3, FS_CardinalityType
<1> QED BY <1>1, <1>2, <1>4

LEMMA LoopsFinite ==
    ASSUME NEW s
    PROVE  /\ IsFiniteSet(Late(s)) /\ IsFiniteSet(InTime(s))
           /\ IsFiniteSet(Late(s)') /\ IsFiniteSet(InTime(s)')
<1>1. /\ Late(s) \subseteq Gateways /\ InTime(s) \subseteq Gateways
      /\ Late(s)' \subseteq Gateways /\ InTime(s)' \subseteq Gateways
  BY DEF Late, InTime
<1> QED BY <1>1, ScheduleAssumption, FS_Subset

\* When one loop moves, what it adds must be balanced by what it records, by its
\* place among the loops, or by a fault.
LEMMA PaidMove ==
    ASSUME Inv, Inv', Leases, Paid,
           NEW s \in Schedules, NEW g, MovesOn(s, g),
           \A t \in Schedules \ {s} : schedulesKv'[t] = schedulesKv[t],
           \A h \in Gateways \ {g} : dispatcher'[h] = dispatcher[h],
           \A t \in Schedules : schedulesKv'[t].state # "deleted" =>
                queued'[t] + (IF g \in Late(t)' THEN 1 ELSE 0)
                    + schedulesKv[t].dispatch_count + (IF g \in InTime(t) THEN 1 ELSE 0)
                    + faultsLeft'
                <= queued[t] + (IF g \in Late(t) THEN 1 ELSE 0)
                    + schedulesKv'[t].dispatch_count + (IF g \in InTime(t)' THEN 1 ELSE 0)
                    + faultsLeft
    PROVE  Paid'
<1> SUFFICES ASSUME NEW t \in Schedules, schedulesKv'[t].state # "deleted"
             PROVE  queued'[t] + Cardinality(Late(t)')
                        <= schedulesKv'[t].dispatch_count + Cardinality(InTime(t)')
                                + (MaxFaults - faultsLeft')
  BY DEF Paid
<1>1. schedulesKv[t].state # "deleted"
  BY DEF MovesOn
<1>2. Late(t)' \ {g} = Late(t) \ {g}
  BY DEF Late
<1>3. InTime(t)' \ {g} = InTime(t) \ {g}
  <2>1. ASSUME NEW h \in Gateways, h # g, dispatcher[h].schedule = t,
               dispatcher[h].claimed.lease_until > 0
        PROVE  Holds(h)' <=> Holds(h)
    BY <2>1, OthersKeep
  <2> QED BY <2>1 DEF InTime
<1>4. /\ Cardinality(Late(t)) \in Nat /\ Cardinality(Late(t)') \in Nat
      /\ Cardinality(Late(t)') = Cardinality(Late(t)) + (IF g \in Late(t)' THEN 1 ELSE 0)
                                                      - (IF g \in Late(t) THEN 1 ELSE 0)
  BY <1>2, LoopsFinite, DifferByOne
<1>5. /\ Cardinality(InTime(t)) \in Nat /\ Cardinality(InTime(t)') \in Nat
      /\ Cardinality(InTime(t)') = Cardinality(InTime(t)) + (IF g \in InTime(t)' THEN 1 ELSE 0)
                                                          - (IF g \in InTime(t) THEN 1 ELSE 0)
  BY <1>3, LoopsFinite, DifferByOne
<1>6. queued[t] + Cardinality(Late(t))
            <= schedulesKv[t].dispatch_count + Cardinality(InTime(t)) + (MaxFaults - faultsLeft)
  BY <1>1 DEF Paid
<1>7. /\ queued[t] \in Nat /\ schedulesKv[t].dispatch_count \in Nat
      /\ queued'[t] \in Nat /\ schedulesKv'[t].dispatch_count \in Nat
      /\ faultsLeft \in Int /\ faultsLeft' \in Int /\ MaxFaults \in Int
  <2>1. TypeOK /\ TypeOK'
    BY DEF Inv
  <2>2. faultsLeft' \in Int
    BY <2>1, ScheduleAssumption DEF TypeOK
  <2>3. queued'[t] \in Nat /\ schedulesKv'[t].dispatch_count \in Nat
    BY <2>1 DEF TypeOK, Record
  <2> QED BY <2>1, <2>2, <2>3, Numbers
<1>8. queued'[t] + (IF g \in Late(t)' THEN 1 ELSE 0)
                    + schedulesKv[t].dispatch_count + (IF g \in InTime(t) THEN 1 ELSE 0)
                    + faultsLeft'
                <= queued[t] + (IF g \in Late(t) THEN 1 ELSE 0)
                    + schedulesKv'[t].dispatch_count + (IF g \in InTime(t)' THEN 1 ELSE 0)
                    + faultsLeft
  OBVIOUS
<1> QED BY <1>4, <1>5, <1>6, <1>7, <1>8

LEMMA AccountsApi ==
    ASSUME Inv, Inv', Leases, Paid, NEW s \in Schedules, CreateSchedule(s) \/ DeleteSchedule(s)
    PROVE  Leases' /\ Paid'
<1>1. TypeOK /\ UNCHANGED <<dispatcher, queued>>
  BY DEF Inv, CreateSchedule, DeleteSchedule
<1>2. PICK g : g \notin Gateways
  BY NoSetContainsEverything
<1>3. /\ \A t \in Schedules \ {s} : schedulesKv'[t] = schedulesKv[t]
      /\ faultsLeft' <= faultsLeft
      /\ \/ schedulesKv'[s] = schedulesKv[s]
         \/ /\ schedulesKv'[s].revision = schedulesKv[s].revision + 1
            /\ schedulesKv[s].state # "deleted"
            /\ \/ schedulesKv'[s].state = "deleted"
               \/ /\ schedulesKv[s].state = "absent" /\ schedulesKv'[s].state = "ACTIVE"
                  /\ schedulesKv'[s].dispatch_count = 0
  <2>1. CASE CreateSchedule(s)
    <3>1. PICK rec \in NewRecords, ok \in BOOLEAN : Applies(s, rec, ok)
      BY <2>1 DEF CreateSchedule
    <3>2. rec \in Record /\ rec.state = "ACTIVE" /\ rec.dispatch_count = 0
      BY NewRecordType DEF NewRecords, Unclaimed
    <3> QED BY <1>1, <2>1, <3>1, <3>2, AppliesStores, AppliesEffect DEF CreateSchedule
  <2>2. CASE DeleteSchedule(s)
    <3> DEFINE rec == [schedulesKv[s] EXCEPT !.state = "deleted"]
    <3>1. rec \in Record /\ rec.state = "deleted"
      BY <1>1 DEF TypeOK, Record
    <3>2. PICK ok \in BOOLEAN : Applies(s, rec, ok)
      BY <2>2 DEF DeleteSchedule
    <3> HIDE DEF rec
    <3>3. schedulesKv[s].state # "deleted"
      BY <2>2 DEF DeleteSchedule, Live
    <3> QED BY <1>1, <3>1, <3>2, <3>3, AppliesStores, AppliesEffect
  <2> QED BY <2>1, <2>2
<1>4. schedulesKv[s].state = "absent" => \A h \in Gateways : ~(Holds(h) /\ dispatcher[h].schedule = s)
  BY DEF Inv, ClaimStands, Holds
<1>5. MovesOn(s, g)
  BY <1>3, <1>4 DEF MovesOn
<1>6. Leases'
  BY <1>1, <1>2, <1>3, <1>5, LeasesMove
<1>7. \A t : g \notin Late(t) /\ g \notin Late(t)' /\ g \notin InTime(t) /\ g \notin InTime(t)'
  BY <1>2 DEF Late, InTime
<1>8. ASSUME NEW t \in Schedules, schedulesKv'[t].state # "deleted"
      PROVE  queued'[t] + schedulesKv[t].dispatch_count + faultsLeft'
                <= queued[t] + schedulesKv'[t].dispatch_count + faultsLeft
  <2>1. /\ queued'[t] = queued[t]
        /\ schedulesKv'[t].dispatch_count = schedulesKv[t].dispatch_count
    BY <1>1, <1>3, <1>8 DEF Leases
  <2>2. faultsLeft' \in Int
    BY ScheduleAssumption DEF Inv, TypeOK
  <2> QED BY <1>1, <1>3, <2>1, <2>2, Numbers
<1>9. Paid'
  <2>1. \A t \in Schedules : queued'[t] \in Nat /\ schedulesKv'[t].dispatch_count \in Nat
                          /\ queued[t] \in Nat /\ schedulesKv[t].dispatch_count \in Nat
                          /\ faultsLeft' \in Int /\ faultsLeft \in Int
    BY ScheduleAssumption, Numbers DEF Inv, TypeOK, Record
  <2>2. \A t \in Schedules : schedulesKv'[t].state # "deleted" =>
                queued'[t] + (IF g \in Late(t)' THEN 1 ELSE 0)
                    + schedulesKv[t].dispatch_count + (IF g \in InTime(t) THEN 1 ELSE 0)
                    + faultsLeft'
                <= queued[t] + (IF g \in Late(t) THEN 1 ELSE 0)
                    + schedulesKv'[t].dispatch_count + (IF g \in InTime(t)' THEN 1 ELSE 0)
                    + faultsLeft
    BY <1>7, <1>8, <2>1
  <2> QED BY <1>1, <1>3, <1>5, <2>2, PaidMove
<1> QED BY <1>6, <1>9

\* The steps of a loop that leave the bucket alone: what is asked of that loop.
LEMMA AccountsLocal ==
    ASSUME Inv, Inv', Leases, Paid, NEW g \in Gateways, UNCHANGED schedulesKv,
           \A h \in Gateways \ {g} : dispatcher'[h] = dispatcher[h],
           LeaseStands(g)',
           Holds(g)' => Holds(g) /\ dispatcher'[g].schedule = dispatcher[g].schedule,
           \A t \in Schedules : schedulesKv[t].state # "deleted" =>
                queued'[t] + (IF g \in Late(t)' THEN 1 ELSE 0)
                    + (IF g \in InTime(t) THEN 1 ELSE 0) + faultsLeft'
                <= queued[t] + (IF g \in Late(t) THEN 1 ELSE 0)
                    + (IF g \in InTime(t)' THEN 1 ELSE 0) + faultsLeft
    PROVE  Leases' /\ Paid'
<1> DEFINE s == dispatcher[g].schedule
<1>1. s \in Schedules /\ MovesOn(s, g)
  BY Numbers DEF Inv, MovesOn
<1>2. Leases'
  BY <1>1, LeasesMove
<1>3. /\ \A t \in Schedules : queued'[t] \in Nat /\ queued[t] \in Nat
                           /\ schedulesKv[t].dispatch_count \in Nat
      /\ faultsLeft' \in Int /\ faultsLeft \in Int
  BY ScheduleAssumption, Numbers DEF Inv, TypeOK
<1>4. \A t \in Schedules : schedulesKv'[t].state # "deleted" =>
                queued'[t] + (IF g \in Late(t)' THEN 1 ELSE 0)
                    + schedulesKv[t].dispatch_count + (IF g \in InTime(t) THEN 1 ELSE 0)
                    + faultsLeft'
                <= queued[t] + (IF g \in Late(t) THEN 1 ELSE 0)
                    + schedulesKv'[t].dispatch_count + (IF g \in InTime(t)' THEN 1 ELSE 0)
                    + faultsLeft
  BY <1>3
<1>5. Paid'
  BY <1>1, <1>4, PaidMove
<1> QED BY <1>2, <1>5

\* A loop that goes on to its next key: only a crash takes one that is in time.
LEMMA AccountsScan ==
    ASSUME Inv, Inv', Leases, Paid, NEW g \in Gateways, Scan(g) \/ GatewayCrash(g)
    PROVE  Leases' /\ Paid'
<1>1. UNCHANGED <<schedulesKv, queued>> /\ TypeOK
  BY DEF Scan, GatewayCrash, Inv
<1>2. PICK todo \in SUBSET Schedules : NextKey(g, todo)
  <2>1. CASE Scan(g)
    BY <2>1 DEF Scan
  <2>2. CASE GatewayCrash(g)
    BY <2>2 DEF GatewayCrash
  <2> QED BY <2>1, <2>2
<1>3. /\ dispatcher'[g].pc \in {"idle", "scan"}
      /\ \A h \in Gateways \ {g} : dispatcher'[h] = dispatcher[h]
  BY <1>1, <1>2, NextKeyMoves
<1>4. LeaseStands(g)' /\ ~Holds(g)'
  BY <1>3 DEF LeaseStands, Holds
<1>5. \A t : g \notin Late(t)' /\ g \notin InTime(t)'
  BY <1>3 DEF Late, InTime
<1>6. faultsLeft' \in Int /\ faultsLeft \in Int /\ \A t \in Schedules : queued[t] \in Nat
  BY ScheduleAssumption, <1>1, Numbers DEF Inv, TypeOK
<1>7. \/ faultsLeft' <= faultsLeft - 1
      \/ faultsLeft' <= faultsLeft /\ \A t : g \notin InTime(t)
  <2>1. CASE Scan(g)
    BY <1>6, <2>1 DEF Scan, Charge, At, InTime
  <2>2. CASE GatewayCrash(g)
    BY <1>6, <2>2 DEF GatewayCrash, Charge
  <2> QED BY <2>1, <2>2
<1>8. \A t \in Schedules : schedulesKv[t].state # "deleted" =>
                queued'[t] + (IF g \in Late(t)' THEN 1 ELSE 0)
                    + (IF g \in InTime(t) THEN 1 ELSE 0) + faultsLeft'
                <= queued[t] + (IF g \in Late(t) THEN 1 ELSE 0)
                    + (IF g \in InTime(t)' THEN 1 ELSE 0) + faultsLeft
  BY <1>1, <1>5, <1>6, <1>7
<1> QED BY <1>1, <1>3, <1>4, <1>8, AccountsLocal

\* A claim is prepared when the record has no lease, with a lease to come.
LEMMA AccountsFetch ==
    ASSUME Inv, Inv', Leases, Paid, NEW g \in Gateways, NEW s \in Schedules, Fetch(g, s)
    PROVE  Leases' /\ Paid'
<1> DEFINE rec == schedulesKv[s]
           todo == dispatcher[g].todo \ {s}
           claimed == [rec EXCEPT !.lease_until = Lease]
           claim == [pc |-> "claim", todo |-> todo, schedule |-> s, claimed |-> claimed]
<1>1. UNCHANGED <<schedulesKv, queued>> /\ TypeOK
  BY DEF Fetch, Inv
<1>2. rec \in Record /\ todo \in SUBSET Schedules
  BY <1>1 DEF TypeOK, DispatcherRecord
<1>3. dispatcher[g].pc = "scan" /\ \A t : g \notin InTime(t)
  BY DEF Fetch, At, InTime
<1>4. faultsLeft' \in Int /\ faultsLeft \in Int /\ \A t \in Schedules : queued[t] \in Nat
  BY ScheduleAssumption, <1>1, Numbers DEF Inv, TypeOK
<1>5. faultsLeft' <= faultsLeft
  BY <1>4 DEF Fetch, Charge
<1>6. /\ \A h \in Gateways \ {g} : dispatcher'[h] = dispatcher[h]
      /\ LeaseStands(g)' /\ ~Holds(g)'
      /\ \A t : g \notin Late(t)'
  <2>1. CASE IsScheduleDue(rec) /\ dispatcher' = [dispatcher EXCEPT ![g] = claim]
    <3>1. /\ claimed.revision = rec.revision /\ claimed.lease_until = Lease
          /\ claimed.dispatch_count = rec.dispatch_count
      BY <1>2 DEF Record
    <3> HIDE DEF claimed
    <3>2. /\ dispatcher'[g].pc = "claim" /\ dispatcher'[g].schedule = s
          /\ dispatcher'[g].claimed = claimed
          /\ \A h \in Gateways \ {g} : dispatcher'[h] = dispatcher[h]
      BY <1>1, <2>1 DEF TypeOK
    <3>3. ~Holds(g)'
      BY <3>2 DEF Holds
    <3>4. rec.lease_until <= 0 /\ ~(Lease <= 0)
      BY <2>1, ScheduleAssumption DEF IsScheduleDue
    <3>5. LeaseStands(g)'
      BY <1>1, <3>1, <3>2, <3>3, <3>4 DEF LeaseStands
    <3> QED BY <3>1, <3>2, <3>3, <3>4, <3>5 DEF Late
  <2>2. CASE NextKey(g, todo)
    <3>1. /\ dispatcher'[g].pc \in {"idle", "scan"}
          /\ \A h \in Gateways \ {g} : dispatcher'[h] = dispatcher[h]
      BY <1>1, <1>2, <2>2, NextKeyMoves
    <3> QED BY <3>1 DEF LeaseStands, Holds, Late
  <2> QED BY <2>1, <2>2 DEF Fetch
<1>7. \A t \in Schedules : schedulesKv[t].state # "deleted" =>
                queued'[t] + (IF g \in Late(t)' THEN 1 ELSE 0)
                    + (IF g \in InTime(t) THEN 1 ELSE 0) + faultsLeft'
                <= queued[t] + (IF g \in Late(t) THEN 1 ELSE 0)
                    + (IF g \in InTime(t)' THEN 1 ELSE 0) + faultsLeft
  BY <1>1, <1>3, <1>4, <1>5, <1>6
<1> QED BY <1>1, <1>6, <1>7, AccountsLocal

\* An update under a claim that stands changes nothing for the other loops: there
\* is no lease for another loop to have, or this loop has it.
LEMMA UpdateMovesOn ==
    ASSUME Inv, Leases, NEW g \in Gateways, NEW rec \in Record, NEW ok \in BOOLEAN,
           dispatcher[g].pc \in {"claim", "put", "publish", "finalize", "release"},
           rec.state # "absent",
           Update(dispatcher[g].schedule, rec, dispatcher[g].claimed.revision, ok)
    PROVE  LET s == dispatcher[g].schedule IN
           /\ s \in Schedules /\ MovesOn(s, g)
           /\ \A t \in Schedules \ {s} : schedulesKv'[t] = schedulesKv[t]
           /\ schedulesKv'[s] = schedulesKv[s] \/ schedulesKv'[s].state # "absent"
<1> DEFINE s == dispatcher[g].schedule
<1>1. TypeOK /\ s \in Schedules /\ dispatcher[g].claimed.revision \in Nat
  BY Numbers DEF Inv
<1>2. LeaseStands(g) /\ ClaimStands(g) /\ \A h \in Gateways : LeaseStands(h)
  BY DEF Inv, Leases
<1>3. /\ \A t \in Schedules \ {s} : schedulesKv'[t] = schedulesKv[t]
      /\ \/ schedulesKv'[s] = schedulesKv[s]
         \/ /\ dispatcher[g].claimed.revision = schedulesKv[s].revision
            /\ schedulesKv'[s].revision = schedulesKv[s].revision + 1
            /\ schedulesKv'[s].state = rec.state
  BY <1>1, UpdateEffect
<1>4. CASE schedulesKv'[s] = schedulesKv[s]
  BY <1>1, <1>3, <1>4 DEF MovesOn
<1>5. CASE /\ dispatcher[g].claimed.revision = schedulesKv[s].revision
           /\ schedulesKv'[s].revision = schedulesKv[s].revision + 1
           /\ schedulesKv'[s].state = rec.state
  <2>1. schedulesKv[s].state = "ACTIVE"
    BY <1>2, <1>5 DEF ClaimStands
  <2>2. ASSUME NEW h \in Gateways, h # g, Holds(h), dispatcher[h].schedule = s
        PROVE  dispatcher[h].claimed.lease_until <= 0
    <3>1. ~Holds(g)
      BY <2>2 DEF Leases, OneHolder
    <3>2. dispatcher[g].pc = "claim"
      BY <1>5, <3>1 DEF Holds
    <3>3. schedulesKv[s].lease_until <= 0
      BY <1>2, <1>5, <3>2 DEF LeaseStands
    <3> QED BY <1>2, <2>2, <3>3 DEF LeaseStands
  <2> QED BY <1>1, <1>3, <1>5, <2>1, <2>2 DEF MovesOn
<1> QED BY <1>3, <1>4, <1>5

LEMMA AccountsClaim ==
    ASSUME Inv, Inv', Leases, Paid, NEW g \in Gateways, Claim(g)
    PROVE  Leases' /\ Paid'
<1> DEFINE d == dispatcher[g]
           s == d.schedule
           owned == [d EXCEPT !.pc = "put", !.claimed.revision = @ + 1]
<1>1. d.pc = "claim" /\ UNCHANGED queued
  BY DEF Claim, At
<1>2. /\ TypeOK /\ d \in DispatcherRecord /\ s \in Schedules /\ d.todo \in SUBSET Schedules
      /\ d.claimed \in Record /\ d.claimed.revision \in Nat /\ d.claimed.state = "ACTIVE"
  BY <1>1, ClaimFacts
<1>3. PICK ok \in BOOLEAN :
        /\ Update(s, d.claimed, d.claimed.revision, ok)
        /\ IF ok THEN dispatcher' = [dispatcher EXCEPT ![g] = owned] ELSE NextKey(g, d.todo)
  BY DEF Claim
<1>4. /\ MovesOn(s, g)
      /\ \A t \in Schedules \ {s} : schedulesKv'[t] = schedulesKv[t]
      /\ schedulesKv'[s] = schedulesKv[s] \/ schedulesKv'[s].state # "absent"
  BY <1>1, <1>2, <1>3, UpdateMovesOn
<1>5. /\ faultsLeft' <= faultsLeft
      /\ \/ schedulesKv'[s] = schedulesKv[s] /\ ~ok
         \/ /\ d.claimed.revision = schedulesKv[s].revision
            /\ schedulesKv'[s].revision = schedulesKv[s].revision + 1
            /\ schedulesKv'[s].lease_until = d.claimed.lease_until
            /\ schedulesKv'[s].dispatch_count = d.claimed.dispatch_count
  BY <1>2, <1>3, UpdateEffect
<1>6. \A t \in Schedules : schedulesKv'[t].dispatch_count = schedulesKv[t].dispatch_count
  <2>1. LeaseStands(g)
    BY DEF Leases
  <2> QED BY <1>1, <1>4, <1>5, <2>1 DEF LeaseStands
<1>7. \A t : g \notin InTime(t)
  BY <1>1 DEF InTime
<1>8. /\ \A h \in Gateways \ {g} : dispatcher'[h] = dispatcher[h]
      /\ LeaseStands(g)'
      /\ Holds(g)' => dispatcher'[g].schedule = s /\ schedulesKv'[s] # schedulesKv[s]
      /\ \A t : g \notin InTime(t)' /\ (g \in Late(t)' => g \in Late(t))
  <2>1. CASE ok
    <3> DEFINE next == d.claimed.revision + 1
               new == [d.claimed EXCEPT !.revision = next]
    <3>1. /\ new.revision = next /\ new.lease_until = d.claimed.lease_until
          /\ new.dispatch_count = d.claimed.dispatch_count
      BY <1>2 DEF Record
    <3>2. owned = [d EXCEPT !.pc = "put", !.claimed = new]
      BY <1>2 DEF DispatcherRecord
    <3> HIDE DEF new, owned
    <3>3. owned.pc = "put" /\ owned.schedule = s /\ owned.claimed = new
      BY <1>2, <3>2 DEF DispatcherRecord
    <3>4. /\ dispatcher'[g] = owned
          /\ \A h \in Gateways \ {g} : dispatcher'[h] = dispatcher[h]
      BY <1>2, <1>3, <2>1 DEF TypeOK
    <3>5. schedulesKv'[s].revision = next /\ schedulesKv[s].revision # next
      BY <1>2, <1>5, <2>1
    <3>6. Holds(g)' /\ schedulesKv'[s] # schedulesKv[s]
      BY <3>1, <3>3, <3>4, <3>5 DEF Holds
    <3>7. LeaseStands(g)'
      BY <1>5, <2>1, <3>1, <3>3, <3>4, <3>6 DEF LeaseStands
    <3>8. \A t : g \notin InTime(t)' /\ (g \in Late(t)' => g \in Late(t))
      BY <1>1, <3>1, <3>3, <3>4 DEF Late, InTime
    <3> QED BY <3>3, <3>4, <3>6, <3>7, <3>8
  <2>2. CASE ~ok
    <3>1. /\ dispatcher'[g].pc \in {"idle", "scan"}
          /\ \A h \in Gateways \ {g} : dispatcher'[h] = dispatcher[h]
      BY <1>2, <1>3, <2>2, NextKeyMoves
    <3> QED BY <3>1 DEF LeaseStands, Holds, Late, InTime
  <2> QED BY <2>1, <2>2
<1>9. Leases'
  BY <1>2, <1>4, <1>8, LeasesMove
<1>10. /\ \A t \in Schedules : queued'[t] \in Nat /\ queued[t] \in Nat
                            /\ schedulesKv[t].dispatch_count \in Nat
       /\ faultsLeft' \in Int /\ faultsLeft \in Int
  BY ScheduleAssumption, <1>2, Numbers DEF Inv, TypeOK
<1>11. \A t \in Schedules : schedulesKv'[t].state # "deleted" =>
                queued'[t] + (IF g \in Late(t)' THEN 1 ELSE 0)
                    + schedulesKv[t].dispatch_count + (IF g \in InTime(t) THEN 1 ELSE 0)
                    + faultsLeft'
                <= queued[t] + (IF g \in Late(t) THEN 1 ELSE 0)
                    + schedulesKv'[t].dispatch_count + (IF g \in InTime(t)' THEN 1 ELSE 0)
                    + faultsLeft
  BY <1>1, <1>5, <1>6, <1>7, <1>8, <1>10
<1>12. Paid'
  BY <1>2, <1>4, <1>8, <1>11, PaidMove
<1> QED BY <1>9, <1>12

\* The job: of a loop in time it is one it can record, of a late one it was paid
\* for when the lease ran out.
LEMMA AccountsSubmit ==
    ASSUME Inv, Inv', Leases, Paid, NEW g \in Gateways, PutRunSnapshot(g) \/ PublishJob(g)
    PROVE  Leases' /\ Paid'
<1> DEFINE d == dispatcher[g]
           s == d.schedule
<1>1. TypeOK /\ UNCHANGED schedulesKv /\ d.pc \in {"put", "publish"} /\ LeaseStands(g)
  BY DEF Inv, Leases, PutRunSnapshot, PublishJob, At
<1>2. PICK ok, applied \in BOOLEAN :
        /\ Charge(ok)
        /\ ok => applied
        /\ d.pc = "publish" => queued' = IF applied THEN [queued EXCEPT ![s] = @ + 1] ELSE queued
        /\ d.pc = "publish" => Goto(g, IF ok THEN "finalize" ELSE "release")
        /\ d.pc = "put" => UNCHANGED queued
        /\ d.pc = "put" => Goto(g, IF ok THEN "publish" ELSE "release")
  <2>1. CASE PutRunSnapshot(g)
    BY <2>1 DEF PutRunSnapshot, At
  <2>2. CASE PublishJob(g)
    BY <2>2 DEF PublishJob, AfterSubmit, At
  <2> QED BY <2>1, <2>2
<1>3. PICK pc \in {"publish", "finalize", "release"} :
        /\ Goto(g, pc)
        /\ pc = "publish" => d.pc = "put"
        /\ pc = "finalize" => d.pc = "publish" /\ ok
        /\ pc = "release" => ~ok
  BY <1>1, <1>2
<1>4. /\ dispatcher'[g].schedule = s /\ dispatcher'[g].claimed = d.claimed
      /\ \A h \in Gateways \ {g} : dispatcher'[h] = dispatcher[h]
  BY <1>1, <1>3, GotoMoves
<1>5. dispatcher'[g].pc = pc
  BY <1>1, <1>3 DEF Goto, TypeOK, DispatcherRecord
<1>6. Holds(g)' <=> Holds(g)
  BY <1>1, <1>4, <1>5 DEF Holds
<1>7. LeaseStands(g)'
  BY <1>1, <1>4, <1>5, <1>6 DEF LeaseStands
<1>8. /\ faultsLeft' \in Int /\ faultsLeft \in Int
      /\ \A t \in Schedules : queued[t] \in Nat
      /\ s \in Schedules /\ d.claimed.lease_until \in Int
  BY ScheduleAssumption, <1>1, Numbers DEF Inv, TypeOK
<1>9. faultsLeft' <= faultsLeft /\ (~ok => faultsLeft' <= faultsLeft - 1)
  BY <1>2, <1>8 DEF Charge
<1>10. /\ \A t \in Schedules : t # s => queued'[t] = queued[t]
       /\ queued'[s] = queued[s] \/ (d.pc = "publish" /\ queued'[s] = queued[s] + 1)
  BY <1>1, <1>2, <1>8 DEF TypeOK
<1>11. ASSUME NEW t \in Schedules, schedulesKv[t].state # "deleted"
       PROVE  queued'[t] + (IF g \in Late(t)' THEN 1 ELSE 0)
                    + (IF g \in InTime(t) THEN 1 ELSE 0) + faultsLeft'
                <= queued[t] + (IF g \in Late(t) THEN 1 ELSE 0)
                    + (IF g \in InTime(t)' THEN 1 ELSE 0) + faultsLeft
  <2>1. g \notin InTime(t)
    BY <1>1 DEF InTime
  <2>2. CASE t # s
    <3>1. g \notin Late(t)' /\ g \notin InTime(t)'
      BY <1>4, <2>2 DEF Late, InTime
    <3> QED BY <1>8, <1>9, <1>10, <2>1, <2>2, <3>1
  <2>3. CASE t = s /\ d.claimed.lease_until <= 0
    <3>1. g \in Late(t)
      BY <1>1, <2>3 DEF Late
    <3>2. CASE pc = "publish"
      <4>1. queued'[t] = queued[t]
        BY <1>2, <1>3, <2>3, <3>2
      <4> QED BY <1>8, <1>9, <2>1, <3>1, <4>1
    <3>3. CASE pc # "publish"
      <4>1. g \notin Late(t)'
        BY <1>3, <1>5, <3>3 DEF Late
      <4> QED BY <1>8, <1>9, <1>10, <2>1, <2>3, <3>1, <4>1
    <3> QED BY <3>2, <3>3
  <2>4. CASE t = s /\ ~(d.claimed.lease_until <= 0)
    <3>1. g \notin Late(t)'
      BY <1>4, <2>4 DEF Late
    <3>2. Holds(g)
      BY <1>1, <1>11, <2>4 DEF LeaseStands
    <3>3. CASE pc = "finalize"
      <4>1. g \in InTime(t)'
        BY <1>4, <1>5, <1>6, <1>8, <2>4, <3>2, <3>3 DEF InTime
      <4> QED BY <1>8, <1>9, <1>10, <2>1, <2>4, <3>1, <4>1
    <3>4. CASE pc = "release"
      BY <1>3, <1>8, <1>9, <1>10, <2>1, <2>4, <3>1, <3>4
    <3>5. CASE pc = "publish"
      <4>1. queued'[t] = queued[t]
        BY <1>2, <1>3, <2>4, <3>5
      <4> QED BY <1>8, <1>9, <2>1, <3>1, <4>1
    <3> QED BY <3>3, <3>4, <3>5
  <2> QED BY <2>2, <2>3, <2>4
<1> QED BY <1>1, <1>4, <1>6, <1>7, <1>11, AccountsLocal

\* The last update: under a claim that stands it records the dispatch, and when it
\* raises there it costs a fault.
LEMMA AccountsFinalize ==
    ASSUME Inv, Inv', Leases, Paid, NEW g \in Gateways, Finalize(g) \/ Release(g)
    PROVE  Leases' /\ Paid'
<1> DEFINE d == dispatcher[g]
           s == d.schedule
<1>1. /\ d.pc \in {"finalize", "release"} /\ UNCHANGED queued
      /\ Finalize(g) => d.pc = "finalize"
      /\ Release(g) => d.pc = "release"
  BY DEF Finalize, Release, At
<1>2. /\ TypeOK /\ s \in Schedules /\ d.todo \in SUBSET Schedules
      /\ d.claimed \in Record /\ d.claimed.revision \in Nat /\ d.claimed.state = "ACTIVE"
      /\ d.claimed.dispatch_count \in Nat /\ schedulesKv[s].dispatch_count \in Nat
      /\ schedulesKv[s].revision \in Nat /\ LeaseStands(g)
  <2>1. /\ TypeOK /\ d.todo \in SUBSET Schedules /\ d.claimed.state = "ACTIVE"
    BY <1>1, ClaimFacts
  <2>2. LeaseStands(g)
    BY DEF Leases
  <2> QED BY <2>1, <2>2, Numbers
<1>3. PICK rec \in Record, ok \in BOOLEAN :
        /\ Update(s, rec, d.claimed.revision, ok)
        /\ rec.state # "absent"
        /\ rec.dispatch_count = d.claimed.dispatch_count + (IF d.pc = "finalize" THEN 1 ELSE 0)
        /\ NextKey(g, d.todo) \/ (d.pc = "finalize" /\ ~ok /\ Goto(g, "release"))
  <2>1. CASE Finalize(g)
    <3> DEFINE rec == Advanced(d.claimed)
    <3>1. rec \in Record /\ rec.state # "absent" /\ rec.dispatch_count = d.claimed.dispatch_count + 1
      <4> DEFINE n == d.claimed.dispatch_count + 1
                 next == ComputeIntervalNextRunAt(d.claimed.start_at, Interval, 0)
                 once == [d.claimed EXCEPT !.dispatch_count = n, !.lease_until = 0,
                                           !.state = "COMPLETED"]
                 again == [d.claimed EXCEPT !.dispatch_count = n, !.lease_until = 0,
                                            !.next_run_at = next]
      <4>2. rec = once \/ rec = again
        BY DEF Advanced
      <4>3. rec \in Record
        BY <1>2, AdvancedType
      <4> HIDE DEF n, next, rec
      <4>4. once.dispatch_count = n /\ once.state = "COMPLETED"
        BY <1>2 DEF Record
      <4>5. again.dispatch_count = n /\ again.state = "ACTIVE"
        BY <1>2 DEF Record
      <4> HIDE DEF once, again
      <4> QED BY <4>2, <4>3, <4>4, <4>5 DEF n
    <3>2. PICK ok \in BOOLEAN :
            /\ Update(s, rec, d.claimed.revision, ok)
            /\ IF ok THEN NextKey(g, d.todo) ELSE Goto(g, "release")
      BY <2>1 DEF Finalize, ClaimedRevision
    <3> HIDE DEF rec
    <3> QED BY <1>1, <2>1, <3>1, <3>2
  <2>2. CASE Release(g)
    <3> DEFINE rec == Released(d.claimed)
    <3>1. /\ rec \in Record /\ rec.state # "absent"
          /\ rec.dispatch_count = d.claimed.dispatch_count
      BY <1>2 DEF Released, Record
    <3>2. PICK ok \in BOOLEAN : Update(s, rec, d.claimed.revision, ok)
      BY <2>2 DEF Release, ClaimedRevision
    <3>3. NextKey(g, d.todo)
      BY <2>2 DEF Release
    <3> HIDE DEF rec
    <3> QED BY <1>1, <1>2, <2>2, <3>1, <3>2, <3>3
  <2> QED BY <2>1, <2>2
<1>4. /\ MovesOn(s, g)
      /\ \A t \in Schedules \ {s} : schedulesKv'[t] = schedulesKv[t]
      /\ schedulesKv'[s] = schedulesKv[s] \/ schedulesKv'[s].state # "absent"
  BY <1>1, <1>2, <1>3, UpdateMovesOn
<1>5. /\ faultsLeft' <= faultsLeft
      /\ ~ok /\ d.claimed.revision = schedulesKv[s].revision => faultsLeft' = faultsLeft - 1
      /\ \/ schedulesKv'[s] = schedulesKv[s] /\ ~ok
         \/ /\ d.claimed.revision = schedulesKv[s].revision
            /\ schedulesKv'[s].revision = schedulesKv[s].revision + 1
            /\ schedulesKv'[s].dispatch_count = rec.dispatch_count
  BY <1>2, <1>3, UpdateEffect
<1>6. /\ \A h \in Gateways \ {g} : dispatcher'[h] = dispatcher[h]
      /\ LeaseStands(g)'
      /\ Holds(g)' => Holds(g) /\ dispatcher'[g].schedule = s
      /\ \A t : g \notin InTime(t)' /\ g \notin Late(t)'
  <2>1. CASE NextKey(g, d.todo)
    <3>1. /\ dispatcher'[g].pc \in {"idle", "scan"}
          /\ \A h \in Gateways \ {g} : dispatcher'[h] = dispatcher[h]
      BY <1>2, <2>1, NextKeyMoves
    <3> QED BY <3>1 DEF LeaseStands, Holds, Late, InTime
  <2>2. CASE Goto(g, "release")
    <3>1. /\ dispatcher'[g].schedule = s /\ dispatcher'[g].claimed = d.claimed
          /\ \A h \in Gateways \ {g} : dispatcher'[h] = dispatcher[h]
      BY <1>2, <2>2, GotoMoves
    <3>2. dispatcher'[g].pc = "release"
      BY <1>2, <2>2 DEF Goto, TypeOK, DispatcherRecord
    <3>3. Holds(g)' => Holds(g) /\ schedulesKv'[s] = schedulesKv[s]
      BY <1>1, <1>2, <1>5, <3>1, <3>2 DEF Holds
    <3>4. LeaseStands(g)'
      BY <1>2, <3>1, <3>2, <3>3 DEF LeaseStands
    <3> QED BY <3>1, <3>2, <3>3, <3>4 DEF Late, InTime
  <2> QED BY <1>3, <2>1, <2>2
<1>7. Leases'
  BY <1>2, <1>4, <1>6, LeasesMove
<1>8. /\ \A t \in Schedules : queued'[t] \in Nat /\ queued[t] \in Nat
                           /\ schedulesKv[t].dispatch_count \in Nat
      /\ faultsLeft' \in Int /\ faultsLeft \in Int
  BY ScheduleAssumption, <1>2, Numbers DEF Inv, TypeOK
<1>9. ASSUME NEW t \in Schedules
      PROVE  schedulesKv[t].dispatch_count + (IF g \in InTime(t) THEN 1 ELSE 0) + faultsLeft'
                <= schedulesKv'[t].dispatch_count + faultsLeft
  <2>1. CASE t # s
    <3>1. g \notin InTime(t)
      BY <2>1 DEF InTime
    <3> QED BY <1>4, <1>5, <1>8, <2>1, <3>1
  <2>2. CASE t = s /\ schedulesKv'[s] = schedulesKv[s] /\ ~ok
    <3>1. g \in InTime(t) => faultsLeft' = faultsLeft - 1
      BY <1>5, <2>2 DEF InTime, Holds
    <3> QED BY <1>5, <1>8, <2>2, <3>1
  <2>3. CASE /\ t = s
             /\ d.claimed.revision = schedulesKv[s].revision
             /\ schedulesKv'[s].dispatch_count = rec.dispatch_count
    <3>1. schedulesKv[s].dispatch_count = d.claimed.dispatch_count
      BY <1>1, <1>2, <2>3 DEF LeaseStands, Holds
    <3>2. g \in InTime(t) => d.pc = "finalize"
      BY DEF InTime
    <3> QED BY <1>2, <1>3, <1>5, <1>8, <2>3, <3>1, <3>2
  <2> QED BY <1>5, <2>1, <2>2, <2>3
<1>10. \A t : g \notin Late(t)
  BY <1>1 DEF Late
<1>11. \A t \in Schedules : schedulesKv'[t].dispatch_count \in Nat
  BY DEF Inv, TypeOK, Record
<1>12. \A t \in Schedules : schedulesKv'[t].state # "deleted" =>
                queued'[t] + (IF g \in Late(t)' THEN 1 ELSE 0)
                    + schedulesKv[t].dispatch_count + (IF g \in InTime(t) THEN 1 ELSE 0)
                    + faultsLeft'
                <= queued[t] + (IF g \in Late(t) THEN 1 ELSE 0)
                    + schedulesKv'[t].dispatch_count + (IF g \in InTime(t)' THEN 1 ELSE 0)
                    + faultsLeft
  BY <1>1, <1>6, <1>8, <1>9, <1>10, <1>11
<1>13. Paid'
  BY <1>2, <1>4, <1>6, <1>12, PaidMove
<1> QED BY <1>7, <1>13

\* What time does to a lease and a count.
LEMMA LaterLease ==
    ASSUME NEW rec \in Record
    PROVE  /\ Later(rec).dispatch_count = rec.dispatch_count
           /\ rec.state = "ACTIVE" =>
                Later(rec).lease_until = IF rec.lease_until > 0 THEN rec.lease_until - 1 ELSE 0
  BY DEF Later, Record

\* Every loop whose lease runs out pays for it.
LEMMA AccountsTick ==
    ASSUME Inv, Inv', Leases, Paid, Tick
    PROVE  Leases' /\ Paid'
<1>1. TypeOK /\ UNCHANGED queued
  BY DEF Inv, Tick
<1>2. ASSUME NEW s \in Schedules
      PROVE  /\ schedulesKv'[s].state = schedulesKv[s].state
             /\ schedulesKv'[s].revision = schedulesKv[s].revision
             /\ schedulesKv'[s].dispatch_count = schedulesKv[s].dispatch_count
             /\ schedulesKv[s].state = "ACTIVE" =>
                    schedulesKv'[s].lease_until =
                        IF schedulesKv[s].lease_until > 0 THEN schedulesKv[s].lease_until - 1 ELSE 0
  <2>1. schedulesKv'[s] = Later(schedulesKv[s]) /\ schedulesKv[s] \in Record
    BY <1>1 DEF Tick, TypeOK
  <2> QED BY <2>1, LaterKeeps, LaterLease
<1>3. ASSUME NEW g \in Gateways
      PROVE  /\ dispatcher'[g].pc = dispatcher[g].pc
             /\ dispatcher'[g].schedule = dispatcher[g].schedule
             /\ dispatcher'[g].claimed.revision = dispatcher[g].claimed.revision
             /\ dispatcher'[g].claimed.dispatch_count = dispatcher[g].claimed.dispatch_count
             /\ dispatcher[g].claimed.state = "ACTIVE" =>
                    dispatcher'[g].claimed.lease_until =
                        IF dispatcher[g].claimed.lease_until > 0
                        THEN dispatcher[g].claimed.lease_until - 1 ELSE 0
  <2> DEFINE d == dispatcher[g]
             later == Later(d.claimed)
             new == [d EXCEPT !.claimed = later]
  <2>1. d \in DispatcherRecord /\ d.claimed \in Record
    BY <1>1 DEF TypeOK, DispatcherRecord
  <2>2. dispatcher'[g] = new
    BY DEF Tick
  <2>3. /\ later.revision = d.claimed.revision
        /\ later.dispatch_count = d.claimed.dispatch_count
        /\ d.claimed.state = "ACTIVE" => later.lease_until =
                IF d.claimed.lease_until > 0 THEN d.claimed.lease_until - 1 ELSE 0
    BY <2>1, LaterKeeps, LaterLease
  <2> HIDE DEF later
  <2>4. new.pc = d.pc /\ new.schedule = d.schedule /\ new.claimed = later
    BY <2>1 DEF DispatcherRecord
  <2> HIDE DEF new
  <2> QED BY <2>2, <2>3, <2>4
<1>4. ASSUME NEW g \in Gateways PROVE Holds(g)' <=> Holds(g)
  <2>1. dispatcher[g].schedule \in Schedules
    BY <1>1, Numbers
  <2> QED BY <1>2, <1>3, <2>1 DEF Holds
<1>5. ASSUME NEW g \in Gateways PROVE LeaseStands(g)'
  <2>1. /\ dispatcher[g].schedule \in Schedules /\ dispatcher[g].claimed.lease_until \in Int
        /\ schedulesKv[dispatcher[g].schedule].lease_until \in Int
    BY <1>1, Numbers
  <2>2. LeaseStands(g) /\ ClaimStands(g)
    BY DEF Inv, Leases
  <2> DEFINE rec == schedulesKv[dispatcher[g].schedule]
             new == schedulesKv'[dispatcher[g].schedule]
  <2>3. /\ new.state = rec.state /\ new.revision = rec.revision
        /\ new.dispatch_count = rec.dispatch_count
        /\ rec.state = "ACTIVE" =>
                new.lease_until = IF rec.lease_until > 0 THEN rec.lease_until - 1 ELSE 0
    BY <1>2, <2>1
  <2>4. /\ dispatcher[g].pc = "claim" /\ dispatcher[g].claimed.revision = rec.revision =>
            new.lease_until <= 0 /\ new.dispatch_count = dispatcher[g].claimed.dispatch_count
    BY <2>1, <2>2, <2>3 DEF LeaseStands, ClaimStands
  <2>5. Holds(g) => /\ new.lease_until = dispatcher'[g].claimed.lease_until
                    /\ new.dispatch_count = dispatcher[g].claimed.dispatch_count
    BY <1>3, <2>1, <2>2, <2>3 DEF LeaseStands, ClaimStands, Holds
  <2>6. /\ dispatcher[g].pc \in {"put", "publish"} /\ ~Holds(g) /\ new.state # "deleted"
        => dispatcher'[g].claimed.lease_until <= 0
    BY <1>3, <2>1, <2>2, <2>3 DEF LeaseStands, ClaimStands
  <2> QED BY <1>3, <1>4, <2>3, <2>4, <2>5, <2>6 DEF LeaseStands
<1>6. OneHolder'
  BY <1>3, <1>4 DEF Leases, OneHolder
<1>7. Leases'
  BY <1>2, <1>5, <1>6 DEF Leases
<1>8. ASSUME NEW s \in Schedules, schedulesKv'[s].state # "deleted"
      PROVE  queued'[s] + Cardinality(Late(s)')
                <= schedulesKv'[s].dispatch_count + Cardinality(InTime(s)')
                        + (MaxFaults - faultsLeft')
  <2> DEFINE joined == {g \in Overruns : dispatcher[g].pc \in {"claim", "put", "publish"}}
             left == {g \in Overruns : dispatcher[g].pc = "finalize"}
  <2>1. /\ IsFiniteSet(Overruns) /\ IsFiniteSet(joined) /\ IsFiniteSet(left)
        /\ joined \cap left = {} /\ joined \cup left \subseteq Overruns
    <3>1. Overruns \subseteq Gateways /\ joined \subseteq Gateways /\ left \subseteq Gateways
      BY DEF Overruns
    <3>2. IsFiniteSet(Overruns) /\ IsFiniteSet(joined) /\ IsFiniteSet(left)
      BY <3>1, ScheduleAssumption, FS_Subset
    <3> QED BY <3>2
  <2>2. ASSUME NEW g \in Gateways, dispatcher[g].pc \notin {"idle", "scan"}
        PROVE  /\ dispatcher[g].claimed.lease_until \in Int
               /\ dispatcher'[g].claimed.lease_until =
                        IF dispatcher[g].claimed.lease_until > 0
                        THEN dispatcher[g].claimed.lease_until - 1 ELSE 0
    BY <1>1, <1>3, <2>2, ClaimFacts, Numbers
  <2>3. Late(s)' \subseteq Late(s) \cup joined
    BY <1>3, <2>2 DEF Late, Overruns
  <2>4. InTime(s) \subseteq InTime(s)' \cup left
    BY <1>3, <1>4, <2>2 DEF InTime, Overruns
  <2> HIDE DEF joined, left
  <2>5. /\ Cardinality(Late(s)) \in Nat /\ Cardinality(Late(s)') \in Nat
        /\ Cardinality(InTime(s)) \in Nat /\ Cardinality(InTime(s)') \in Nat
        /\ Cardinality(joined) \in Nat /\ Cardinality(left) \in Nat
        /\ Cardinality(Overruns) \in Nat
    BY <2>1, LoopsFinite, FS_CardinalityType
  <2>6. Cardinality(Late(s)') <= Cardinality(Late(s)) + Cardinality(joined)
    BY <2>1, <2>3, <2>5, LoopsFinite, UnionBound
  <2>7. Cardinality(InTime(s)) <= Cardinality(InTime(s)') + Cardinality(left)
    BY <2>1, <2>4, <2>5, LoopsFinite, UnionBound
  <2>8. Cardinality(joined) + Cardinality(left) <= Cardinality(Overruns)
    <3>1. /\ Cardinality(joined \cup left)
                = Cardinality(joined) + Cardinality(left) - Cardinality(joined \cap left)
      BY <2>1, FS_Union
    <3>2. Cardinality(joined \cap left) = 0
      BY <2>1, FS_EmptySet
    <3>3. Cardinality(joined \cup left) <= Cardinality(Overruns)
      BY <2>1, FS_Subset
    <3> QED BY <2>5, <3>1, <3>2, <3>3
  <2>9. faultsLeft' = faultsLeft - Cardinality(Overruns)
    BY DEF Tick
  <2>10. queued[s] + Cardinality(Late(s))
            <= schedulesKv[s].dispatch_count + Cardinality(InTime(s)) + (MaxFaults - faultsLeft)
    BY <1>2, <1>8 DEF Paid
  <2>11. /\ queued[s] \in Nat /\ schedulesKv[s].dispatch_count \in Nat
         /\ faultsLeft \in Int /\ MaxFaults \in Int
    BY <1>1, Numbers
  <2>12. queued'[s] = queued[s] /\ schedulesKv'[s].dispatch_count = schedulesKv[s].dispatch_count
    BY <1>1, <1>2
  <2> QED BY <2>5, <2>6, <2>7, <2>8, <2>9, <2>10, <2>11, <2>12
<1> QED BY <1>7, <1>8 DEF Paid

LEMMA AccountsInitially == Init => Leases /\ Paid
<1> SUFFICES ASSUME Init PROVE Leases /\ Paid
  OBVIOUS
<1>1. \A g \in Gateways : dispatcher[g].pc = "idle"
  BY DEF Init
<1>2. Leases
  BY <1>1 DEF Leases, LeaseStands, OneHolder, Holds, Init, NoRecord, Unclaimed
<1>3. ASSUME NEW s \in Schedules
      PROVE  queued[s] + Cardinality(Late(s))
                <= schedulesKv[s].dispatch_count + Cardinality(InTime(s)) + (MaxFaults - faultsLeft)
  <2>1. Late(s) = {} /\ InTime(s) = {}
    BY <1>1 DEF Late, InTime
  <2>2. Cardinality(Late(s)) = 0 /\ Cardinality(InTime(s)) = 0
    BY <2>1, FS_EmptySet
  <2> QED BY <2>2, ScheduleAssumption DEF Init, NoRecord, Unclaimed
<1> QED BY <1>2, <1>3 DEF Paid

LEMMA AccountsAlways == Spec => [](TypeOK /\ Paid)
<1>1. Inv /\ Inv' /\ Leases /\ Paid /\ [Next]_vars => Leases' /\ Paid'
  <2> SUFFICES ASSUME Inv, Inv', Leases, Paid, [Next]_vars PROVE Leases' /\ Paid'
    OBVIOUS
  <2>1. ASSUME NEW s \in Schedules, CreateSchedule(s) \/ DeleteSchedule(s) PROVE Leases' /\ Paid'
    BY <2>1, AccountsApi
  <2>2. ASSUME NEW g \in Gateways, LoopStep(g) \/ GatewayCrash(g) PROVE Leases' /\ Paid'
    BY <2>2, AccountsScan, AccountsFetch, AccountsClaim, AccountsSubmit, AccountsFinalize
       DEF LoopStep
  <2>3. CASE Tick
    BY <2>3, AccountsTick
  <2>4. CASE UNCHANGED vars
    BY <2>4 DEF vars, Leases, LeaseStands, OneHolder, Holds, Paid, Late, InTime
  <2> QED BY <2>1, <2>2, <2>3, <2>4 DEF Next
<1>2. Inv => TypeOK
  BY DEF Inv
<1> QED BY <1>1, <1>2, InvInitially, InvKept, AccountsInitially, PTL DEF Spec

\* One run per occurrence: whatever the number of gateways that poll a schedule,
\* each job beyond the recorded dispatches is paid for by a failed call, a crash or
\* a lease that ran out.
THEOREM DuplicatesArePaidFor == Spec => []DuplicatesNeedFaults
<1>1. ASSUME TypeOK, Paid PROVE DuplicatesNeedFaults
  <2> SUFFICES ASSUME NEW s \in Schedules, schedulesKv[s].state # "deleted"
               PROVE  queued[s] <= schedulesKv[s].dispatch_count + Cardinality(Unrecorded(s))
                                        + (MaxFaults - faultsLeft)
    BY DEF DuplicatesNeedFaults
  <2>1. InTime(s) \subseteq Unrecorded(s) /\ Unrecorded(s) \subseteq Gateways
    BY DEF InTime, Unrecorded, Holds, At, ClaimedRevision
  <2>2. /\ IsFiniteSet(Unrecorded(s))
        /\ Cardinality(InTime(s)) <= Cardinality(Unrecorded(s))
    BY <2>1, ScheduleAssumption, FS_Subset
  <2>3. /\ Cardinality(Late(s)) \in Nat /\ Cardinality(InTime(s)) \in Nat
        /\ Cardinality(Unrecorded(s)) \in Nat
    BY <2>2, LoopsFinite, FS_CardinalityType
  <2>4. queued[s] + Cardinality(Late(s))
            <= schedulesKv[s].dispatch_count + Cardinality(InTime(s)) + (MaxFaults - faultsLeft)
    BY <1>1 DEF Paid
  <2>5. /\ queued[s] \in Nat /\ schedulesKv[s].dispatch_count \in Nat
        /\ faultsLeft \in Int /\ MaxFaults \in Int
    BY <1>1, Numbers
  <2> QED BY <2>2, <2>3, <2>4, <2>5
<1> QED BY <1>1, AccountsAlways, PTL

=============================================================================
