-------------------------- MODULE ScheduleDispatch --------------------------
(***************************************************************************)
(* YAML schedules: the records of the bucket `pyoco_yaml_schedules`, the   *)
(* API calls that create and delete them, and the dispatch loop every      *)
(* gateway runs: scan the keys, claim a due schedule by a compare-and-set  *)
(* that stores a lease, submit a run, record the dispatch, or release the  *)
(* claim when anything failed.                                             *)
(*                                                                         *)
(* Times are integers relative to now: Tick moves the origin, so a time    *)
(* that is not positive has come.  "No lease" is a lease that has run out. *)
(* Submitting a run is RunGateway's SubmitPut and PublishJob; here a run   *)
(* is counted when its job is in the work queue.                           *)
(***************************************************************************)
EXTENDS Integers, FiniteSets

CONSTANTS
    Schedules,      \* schedule ids (uuid4, never reused)
    Gateways,       \* gateway processes, each with its dispatch loop
    Interval,       \* interval_seconds
    Lease,          \* lease_seconds
    MaxDelay,       \* bound: how far ahead run_at and start_at lie
    MaxDispatches,  \* bound: dispatches of one schedule
    MaxFaults       \* bound: calls that fail, crashes and overrun leases

ASSUME ScheduleAssumption ==
    /\ Interval \in Nat \ {0}
    /\ Lease \in Nat \ {0}
    /\ MaxDelay \in Nat \ {0}
    /\ MaxDispatches \in Nat
    /\ MaxFaults \in Nat
    /\ IsFiniteSet(Gateways)

VARIABLES
    schedulesKv,    \* schedule id -> record, with its revision
    dispatcher,     \* gateway -> where its loop stands
    queued,         \* jobs the schedule has put into the work queue
    faultsLeft      \* remaining faults

vars == <<schedulesKv, dispatcher, queued, faultsLeft>>

-----------------------------------------------------------------------------
(* schedules.py *)

\* (The next occurrence counted from now on instead of from the anchor.)
NextFromNow(anchor, interval, now) == IF anchor > now THEN anchor ELSE now + interval

\* The first occurrence after now on the grid the anchor starts.
ComputeIntervalNextRunAt(anchor, interval, now) ==
    IF anchor > now THEN anchor
    ELSE anchor + ((now - anchor) \div interval + 1) * interval

Record == [state : {"absent", "ACTIVE", "COMPLETED", "deleted"},
           schedule_type : {"once", "interval"},
           revision : Nat,
           next_run_at : Int,
           start_at : Int,
           lease_until : Int,
           dispatch_count : Nat]

Unclaimed(state, type, next, start) ==
    [state |-> state, schedule_type |-> type, revision |-> 0, next_run_at |-> next,
     start_at |-> start, lease_until |-> 0, dispatch_count |-> 0]
NoRecord == Unclaimed("absent", "once", 0, 0)

\* build_schedule_record: a one-shot at a future time, or an interval schedule
\* whose first run is its anchor or the first occurrence that is not over.
NewRecords ==
    {Unclaimed("ACTIVE", "once", at, 0) : at \in 1..MaxDelay}
        \cup {Unclaimed("ACTIVE", "interval", ComputeIntervalNextRunAt(at, Interval, -1), at)
                : at \in (1 - Interval)..MaxDelay}

\* (Due although another dispatcher holds the lease.)
DueLeasedOrNot(rec) == rec.state = "ACTIVE" /\ rec.next_run_at <= 0

IsScheduleDue(rec) ==
    rec.state = "ACTIVE" /\ rec.next_run_at <= 0 /\ rec.lease_until <= 0

\* advance_schedule_after_dispatch
Advanced(rec) ==
    IF rec.schedule_type = "once"
    THEN [rec EXCEPT !.dispatch_count = @ + 1, !.lease_until = 0, !.state = "COMPLETED"]
    ELSE [rec EXCEPT !.dispatch_count = @ + 1, !.lease_until = 0,
                     !.next_run_at = ComputeIntervalNextRunAt(rec.start_at, Interval, 0)]

\* (A failed dispatch that is not tried again.)
ReleasedForGood(rec) == [rec EXCEPT !.lease_until = 0, !.state = "COMPLETED"]

\* (A failed dispatch that gets a status of its own.)
ReleasedAsFailed(rec) == [rec EXCEPT !.lease_until = 0, !.state = "FAILED"]

\* The record a failed dispatch leaves: claimable at once.
Released(rec) == [rec EXCEPT !.lease_until = 0]

-----------------------------------------------------------------------------
(* The bucket.  A call that raises may still have been applied.             *)

Charge(ok) ==
    /\ ok \/ faultsLeft > 0
    /\ faultsLeft' = IF ok THEN faultsLeft ELSE faultsLeft - 1

\* kv.put, kv.delete: a new revision, whatever the last one was.
Store(s, rec) ==
    schedulesKv' = [schedulesKv EXCEPT ![s] = [rec EXCEPT !.revision = schedulesKv[s].revision + 1]]

Applies(s, rec, ok) ==
    /\ Charge(ok)
    /\ \/ Store(s, rec)
       \/ ~ok /\ UNCHANGED schedulesKv

\* kv.update: refused when `last` is not the key's revision any more.
Update(s, rec, last, ok) ==
    \/ last = schedulesKv[s].revision /\ Applies(s, rec, ok)
    \/ last # schedulesKv[s].revision /\ ~ok /\ UNCHANGED <<schedulesKv, faultsLeft>>

-----------------------------------------------------------------------------
(* The API *)

Live(s) == schedulesKv[s].state \in {"ACTIVE", "COMPLETED"}

CreateSchedule(s) ==
    /\ schedulesKv[s].state = "absent"
    /\ \E rec \in NewRecords, ok \in BOOLEAN : Applies(s, rec, ok)
    /\ UNCHANGED <<dispatcher, queued>>

\* The delete is unconditional: a dispatch may be under way.
DeleteSchedule(s) ==
    /\ Live(s)
    /\ \E ok \in BOOLEAN : Applies(s, [schedulesKv[s] EXCEPT !.state = "deleted"], ok)
    /\ UNCHANGED <<dispatcher, queued>>

-----------------------------------------------------------------------------
(* The dispatch loop *)

\* "claimed" is the record the loop built from what it read, with the revision
\* its next update names.
DispatcherRecord ==
    [pc : {"idle", "scan", "claim", "put", "publish", "finalize", "release"},
     todo : SUBSET Schedules,
     schedule : Schedules,
     claimed : Record]

At(g, pc) == dispatcher[g].pc = pc
Goto(g, pc) == dispatcher' = [dispatcher EXCEPT ![g].pc = pc]

\* On to the next key; after the last one the loop sleeps.
NextKey(g, todo) ==
    dispatcher' = [dispatcher EXCEPT
        ![g].pc = IF todo = {} THEN "idle" ELSE "scan",
        ![g].todo = todo, ![g].claimed = NoRecord]

\* One pass starts: kv.keys().
Scan(g) ==
    /\ At(g, "idle")
    /\ \E ok \in BOOLEAN : Charge(ok) /\ NextKey(g, IF ok THEN {s \in Schedules : Live(s)} ELSE {})
    /\ UNCHANGED <<schedulesKv, queued>>

\* kv.get, the due check, and the claim to be stored.
Fetch(g, s) ==
    LET rec == schedulesKv[s] IN
    /\ At(g, "scan")
    /\ s \in dispatcher[g].todo
    /\ \E ok \in BOOLEAN :
        /\ Charge(ok)
        /\ IF ok /\ IsScheduleDue(rec) /\ rec.dispatch_count < MaxDispatches
           THEN dispatcher' = [dispatcher EXCEPT ![g] =
                    [pc |-> "claim", todo |-> @.todo \ {s}, schedule |-> s,
                     claimed |-> [rec EXCEPT !.lease_until = Lease]]]
           ELSE NextKey(g, dispatcher[g].todo \ {s})
    /\ UNCHANGED <<schedulesKv, queued>>

Claim(g) ==
    LET d == dispatcher[g] IN
    /\ At(g, "claim")
    /\ \E ok \in BOOLEAN :
        /\ Update(d.schedule, d.claimed, d.claimed.revision, ok)
        /\ IF ok THEN dispatcher' = [dispatcher EXCEPT ![g].pc = "put",
                                                       ![g].claimed.revision = @ + 1]
                 ELSE NextKey(g, d.todo)
    /\ UNCHANGED queued

\* (A dispatch recorded although submitting its run raised.)
RecordsAnyway(ok) == "finalize"

\* After the publish: record the dispatch, or release the claim if it raised.
AfterSubmit(ok) == IF ok THEN "finalize" ELSE "release"

\* _submit_yaml_run_internal: the run's snapshot, then its job.
PutRunSnapshot(g) ==
    /\ At(g, "put")
    /\ \E ok \in BOOLEAN : Charge(ok) /\ Goto(g, IF ok THEN "publish" ELSE "release")
    /\ UNCHANGED <<schedulesKv, queued>>

PublishJob(g) ==
    /\ At(g, "publish")
    /\ \E ok, applied \in BOOLEAN :
        /\ ok => applied
        /\ Charge(ok)
        /\ queued' = IF applied THEN [queued EXCEPT ![dispatcher[g].schedule] = @ + 1] ELSE queued
        /\ Goto(g, AfterSubmit(ok))
    /\ UNCHANGED schedulesKv

\* (The revision the key has now, instead of the one the claim got.)
LatestRevision(g) == schedulesKv[dispatcher[g].schedule].revision

ClaimedRevision(g) == dispatcher[g].claimed.revision

Finalize(g) ==
    LET d == dispatcher[g] IN
    /\ At(g, "finalize")
    /\ \E ok \in BOOLEAN :
        /\ Update(d.schedule, Advanced(d.claimed), ClaimedRevision(g), ok)
        /\ IF ok THEN NextKey(g, d.todo) ELSE Goto(g, "release")
    /\ UNCHANGED queued

\* Best effort, also after a finalizing update that raised: with the claim's
\* revision, so that it is refused if that update was applied.
Release(g) ==
    LET d == dispatcher[g] IN
    /\ At(g, "release")
    /\ \E ok \in BOOLEAN : Update(d.schedule, Released(d.claimed), ClaimedRevision(g), ok)
    /\ NextKey(g, d.todo)
    /\ UNCHANGED queued

\* The process dies, or its loop is cancelled at an await; it is started again.
GatewayCrash(g) ==
    /\ ~At(g, "idle")
    /\ Charge(FALSE)
    /\ NextKey(g, {}) /\ UNCHANGED <<schedulesKv, queued>>

-----------------------------------------------------------------------------
(* Time.  Times that have come stay at 0, an anchor in the past moves along *)
(* its grid, and the times of a record that is not active do not matter.   *)
(* A loop that is still between its due check and its last update when its  *)
(* lease runs out costs a fault.                                            *)

Later(rec) ==
    IF rec.state # "ACTIVE" THEN rec
    ELSE [rec EXCEPT
        !.next_run_at = IF @ > 0 THEN @ - 1 ELSE 0,
        !.lease_until = IF @ > 0 THEN @ - 1 ELSE 0,
        !.start_at = IF rec.schedule_type = "once" THEN @
                      ELSE IF @ = 1 - Interval THEN 0 ELSE @ - 1]

Overruns == {g \in Gateways : dispatcher[g].claimed.lease_until = 1}

Tick ==
    /\ Cardinality(Overruns) <= faultsLeft
    /\ faultsLeft' = faultsLeft - Cardinality(Overruns)
    /\ schedulesKv' = [s \in Schedules |-> Later(schedulesKv[s])]
    /\ dispatcher' = [g \in Gateways |->
            [dispatcher[g] EXCEPT !.claimed = Later(@)]]
    /\ UNCHANGED queued

-----------------------------------------------------------------------------
Init ==
    /\ schedulesKv = [s \in Schedules |-> NoRecord]
    /\ \E s \in Schedules : dispatcher = [g \in Gateways |->
            [pc |-> "idle", todo |-> {}, schedule |-> s, claimed |-> NoRecord]]
    /\ queued = [s \in Schedules |-> 0]
    /\ faultsLeft = MaxFaults

LoopStep(g) ==
    \/ Scan(g) \/ (\E s \in Schedules : Fetch(g, s)) \/ Claim(g)
    \/ PutRunSnapshot(g) \/ PublishJob(g) \/ Finalize(g) \/ Release(g)

Next ==
    \/ \E s \in Schedules : CreateSchedule(s) \/ DeleteSchedule(s)
    \/ \E g \in Gateways : LoopStep(g) \/ GatewayCrash(g)
    \/ Tick

Spec == Init /\ [][Next]_vars

\* The loop is a task of a running event loop, and time passes.
FairSpec == Spec /\ (\A g \in Gateways : WF_vars(LoopStep(g))) /\ WF_vars(Tick)

-----------------------------------------------------------------------------
(* Properties *)

TypeOK ==
    /\ schedulesKv \in [Schedules -> Record]
    /\ dispatcher \in [Gateways -> DispatcherRecord]
    /\ queued \in [Schedules -> Nat]
    /\ faultsLeft \in 0..MaxFaults

\* A schedule that was completed or deleted is never dispatched from again:
\* no finalizing or releasing update of a loop that claimed it earlier brings
\* an active record back.
ClosedStaysClosed ==
    [][\A s \in Schedules :
        /\ schedulesKv[s].state = "deleted" => schedulesKv'[s].state = "deleted"
        /\ schedulesKv[s].state = "COMPLETED" => schedulesKv'[s].state \in {"COMPLETED", "deleted"}]_vars

\* The loop that has queued a run and is about to record it under a claim that
\* still stands.
Unrecorded(s) ==
    {g \in Gateways : At(g, "finalize") /\ dispatcher[g].schedule = s
                        /\ ClaimedRevision(g) = schedulesKv[s].revision}

\* One run per occurrence: as long as the schedule exists, every job beyond
\* the recorded dispatches (and one about to be recorded) is paid for by a
\* failed call, a crash or a lease that ran out under a slow dispatch.
\* Gateways that poll the same schedule do not add any by themselves.
DuplicatesNeedFaults ==
    \A s \in Schedules : schedulesKv[s].state # "deleted" =>
        queued[s] <= schedulesKv[s].dispatch_count + Cardinality(Unrecorded(s))
                        + (MaxFaults - faultsLeft)

\* A recorded dispatch was made: no occurrence is counted, and no one-shot
\* completed, without a job in the queue.
RecordedIsQueued ==
    \A s \in Schedules :
        /\ schedulesKv[s].dispatch_count <= queued[s]
        /\ schedulesKv[s].state = "COMPLETED" => queued[s] > 0

\* Interval schedules do not drift and are not starved by late dispatches: the
\* next run is an occurrence of the anchor's grid, at most an interval away
\* once the anchor has passed.
OnTheGrid ==
    \A s \in Schedules :
        LET rec == schedulesKv[s] IN
        rec.state = "ACTIVE" /\ rec.schedule_type = "interval" /\ rec.next_run_at > 0 =>
            /\ (rec.next_run_at - rec.start_at) % Interval = 0
            /\ rec.start_at <= 0 => rec.next_run_at <= Interval

\* Every due occurrence is dispatched in the end, or its schedule is deleted:
\* a claim whose owner died or whose update raised does not hold it for ever.
DueIsDispatched ==
    \A s \in Schedules, n \in 0..(MaxDispatches - 1) :
        (/\ schedulesKv[s].state = "ACTIVE"
         /\ schedulesKv[s].next_run_at = 0
         /\ schedulesKv[s].dispatch_count = n)
            ~> (schedulesKv[s].dispatch_count > n \/ schedulesKv[s].state = "deleted")

=============================================================================
