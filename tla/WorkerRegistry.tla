--------------------------- MODULE WorkerRegistry ---------------------------
(***************************************************************************)
(* One record of the bucket `pyoco_workers` and those who write it: the    *)
(* worker's main task (start, job, wheel status, close), its heartbeat     *)
(* task, and the API's PATCH.  The two tasks share the record in memory    *)
(* and one connection; every write is a get, for the hidden flag, followed *)
(* by a blind put.                                                         *)
(*                                                                         *)
(* External: the requests of one connection are served, and their replies  *)
(* are delivered, in the order they were sent.  Serving a request and      *)
(* handling its reply is one step.  A request that times out is given up   *)
(* by its task; a put given up is still served, or lost.                   *)
(*                                                                         *)
(* A record's age is the time since its last_seen_at; the bucket has a TTL *)
(* and drops a record that long after it was put, whatever is in it.       *)
(* current_run_id and the last_run_* fields change with the state and are  *)
(* left out.                                                               *)
(***************************************************************************)
EXTENDS Integers, Sequences

CONSTANTS
    Timeout,        \* worker_disconnect_timeout_sec, in heartbeat intervals
    Lifetime,       \* workers_kv_ttl_sec, in heartbeat intervals; 0: no TTL
    MaxPatches,     \* bound: PATCH requests
    MaxFaults       \* bound: requests given up, stalls, crashes, lost jobs

ASSUME RegistryAssumption ==
    /\ Timeout \in Nat \ {0}
    /\ Lifetime \in Nat
    /\ MaxPatches \in Nat
    /\ MaxFaults \in Nat

VARIABLES
    workersKv,      \* the record in the bucket
    kept,           \* time since it was put, up to Lifetime
    registry,       \* the worker's copy, self._registry
    phase,          \* of the worker process
    running,        \* the main task is processing a job
    beat,           \* the heartbeat task: "due", or "asleep" until the next tick
    wire,           \* the worker's outstanding requests, oldest first
    silent,         \* time since the process ended
    patch,          \* the PATCH request in progress
    asked,          \* history: the flag the last PATCH stored
    raced,          \* history: a write of the worker missed that flag
    lapsed,         \* history: since then the record expired with nobody to renew it
    patchesLeft,
    faultsLeft

bucket == <<workersKv, kept>>
worker == <<phase, registry, running, beat>>
http == <<patch, asked, raced, lapsed, patchesLeft>>
vars == <<bucket, worker, wire, silent, http, faultsLeft>>

States == {"IDLE", "RUNNING", "STOPPED_GRACEFUL"}
Ages == 0..Timeout + 1
Record == [state : States, hidden : BOOLEAN, age : Ages]
NoRecord == [state |-> "absent", hidden |-> FALSE, age |-> 0]
NewRecord(hidden) == [state |-> "IDLE", hidden |-> hidden, age |-> 0]
Tasks == {"main", "beat"}
Off == {"never", "dead", "stopped"}

-----------------------------------------------------------------------------
(* models.py, http_api.py: what a listing shows *)

\* derive_worker_effective_state
EffectiveState(rec) ==
    IF rec.state \in {"IDLE", "RUNNING"} /\ rec.age > Timeout THEN "DISCONNECTED" ELSE rec.state

\* list_workers with its default query.
Listed(rec) == ~rec.hidden /\ EffectiveState(rec) \in {"IDLE", "RUNNING"}

-----------------------------------------------------------------------------
(* The worker's connection *)

Charge(ok) ==
    /\ ok \/ faultsLeft > 0
    /\ faultsLeft' = IF ok THEN faultsLeft ELSE faultsLeft - 1

Request(task, op, rec) == [task |-> task, op |-> op, rec |-> rec]
Waiting(task) == \E i \in DOMAIN wire : wire[i].task = task

\* (The record the worker has in memory decides about the flag.)
OwnFlag(rec) == rec

\* The flag is the bucket's, or the record's own when there is none to read.
PreservedHidden(rec) ==
    IF workersKv = NoRecord THEN rec ELSE [rec EXCEPT !.hidden = workersKv.hidden]

\* (The last record overtakes a heartbeat that is under way.)
StopsAtOnce(task, rec) ==
    IF rec.state = "STOPPED_GRACEFUL" THEN Request(task, "put", PreservedHidden(rec))
                                      ELSE Request(task, "get", rec)

\* _write_worker_registry, up to its get.
Write(task, rec) == Request(task, "get", rec)

\* What tasks that are killed leave on the wire.
Orphaned(requests, tasks) ==
    [i \in DOMAIN requests |-> IF requests[i].task \in tasks
                               THEN [requests[i] EXCEPT !.task = "nobody"] ELSE requests[i]]

\* (The copy in memory changes only when the put has returned.)
MemoryLater(rec) == registry

\* The copy in memory changes at once.
MemoryNow(rec) == rec

\* _set_worker_registry: the copy in memory changes, then it is written.
SetRegistry(task, state, touch) ==
    LET rec == [registry EXCEPT !.state = state, !.age = IF touch THEN 0 ELSE @]
    IN /\ registry' = MemoryNow(rec)
       /\ wire' = Append(wire, Write(task, rec))

\* The process ends: its memory is gone, and what it sent may still be served.
Ends(as, requests) ==
    /\ phase' = as
    /\ registry' = NewRecord(FALSE) /\ running' = FALSE /\ beat' = "due"
    /\ wire' = Orphaned(requests, Tasks)

-----------------------------------------------------------------------------
(* External: the bucket *)

Stores(rec) == workersKv' = rec /\ kept' = 0

\* Without a fault the heartbeats of a worker that is up renew its record.
Renewed == phase \in {"up", "closing"} /\ faultsLeft = MaxFaults /\ Lifetime > 1

\* The server drops the record some time after its TTL.
Expire ==
    /\ workersKv # NoRecord /\ Lifetime > 0 /\ kept >= Lifetime
    /\ Stores(NoRecord)
    /\ lapsed' = (lapsed \/ ~Renewed)
    /\ UNCHANGED <<worker, wire, silent, patch, asked, raced, patchesLeft, faultsLeft>>

-----------------------------------------------------------------------------
(* The main task *)

\* _init: a record that keeps only the flag of the previous one, which counts
\* when the get of the write fails.
StartWorker ==
    /\ phase \in Off
    /\ wire = <<>>
    /\ \E ok \in BOOLEAN :
        /\ Charge(ok)
        /\ registry' = NewRecord(ok /\ workersKv.hidden)
        /\ wire' = <<Write("main", registry')>>
    /\ phase' = "starting"
    /\ silent' = 0
    /\ UNCHANGED <<bucket, running, beat, http>>

MainIsFree == phase = "up" /\ ~Waiting("main")

StartJob ==
    /\ MainIsFree /\ ~running
    /\ running' = TRUE
    /\ SetRegistry("main", "RUNNING", TRUE)
    /\ UNCHANGED <<bucket, phase, beat, silent, http, faultsLeft>>

FinishJob ==
    /\ MainIsFree /\ running
    /\ running' = FALSE
    /\ SetRegistry("main", "IDLE", TRUE)
    /\ UNCHANGED <<bucket, phase, beat, silent, http, faultsLeft>>

\* The FAILED snapshot could not be stored: the job is given back, and the
\* record is left as it is.
AbandonJob ==
    /\ MainIsFree /\ running
    /\ Charge(FALSE)
    /\ running' = FALSE
    /\ UNCHANGED <<bucket, registry, phase, beat, wire, silent, http>>

\* _maybe_sync_wheels: the result of a synchronisation, without a touch.
WriteWheelStatus ==
    /\ MainIsFree /\ ~running
    /\ SetRegistry("main", registry.state, FALSE)
    /\ UNCHANGED <<bucket, phase, running, beat, silent, http, faultsLeft>>

\* close, after run_once or in the middle of it when the process is told to stop.
Close ==
    LET rec == [registry EXCEPT !.state = "STOPPED_GRACEFUL", !.age = 0] IN
    /\ phase = "up"
    /\ phase' = "closing"
    /\ registry' = MemoryNow(rec)
    /\ wire' = Append(Orphaned(wire, {"main"}), Write("main", rec))
    /\ UNCHANGED <<bucket, running, beat, silent, http, faultsLeft>>

Crash ==
    /\ phase \notin Off
    /\ Charge(FALSE)
    /\ Ends("dead", wire)
    /\ UNCHANGED <<bucket, silent, http>>

-----------------------------------------------------------------------------
(* The heartbeat task *)

\* (A worker that is busy sends no heartbeat.)
DueBetweenJobs == beat = "due" /\ ~running

BeatIsDue == beat = "due"

\* _worker_registry_loop
Beat ==
    /\ phase = "up" /\ BeatIsDue /\ ~Waiting("beat")
    /\ SetRegistry("beat", registry.state, TRUE)
    /\ UNCHANGED <<bucket, phase, running, beat, silent, http, faultsLeft>>

\* (A heartbeat that failed was the last one.)
EndsWithFailure(ok) == IF ok THEN "asleep" ELSE "ended"

\* A failed heartbeat is logged, and the loop goes on.
AfterBeat(ok) == "asleep"

\* A task's put of `rec` has returned or raised, with `rest` on the wire.
WriteReturns(task, ok, rec, rest) ==
    CASE task = "main" /\ phase = "starting" ->
            IF ok THEN /\ phase' = "up" /\ registry' = rec /\ wire' = rest
                       /\ UNCHANGED <<running, beat>>
                  ELSE Ends("dead", rest)
      [] task = "main" /\ phase = "closing" -> Ends("stopped", rest)
      [] OTHER -> /\ registry' = (IF ok THEN rec ELSE registry)
                  /\ wire' = rest
                  /\ beat' = (IF task = "beat" THEN AfterBeat(ok) ELSE beat)
                  /\ UNCHANGED <<phase, running>>

-----------------------------------------------------------------------------
(* The requests of the worker *)

ServeGet ==
    LET req == Head(wire) IN
    /\ wire # <<>> /\ req.op = "get" /\ req.task # "nobody"
    /\ wire' = Append(Tail(wire), Request(req.task, "put", PreservedHidden(req.rec)))
    /\ UNCHANGED <<bucket, worker, silent, http, faultsLeft>>

\* A put is applied, and the record it stored becomes the copy in memory.
ServePut ==
    LET req == Head(wire) IN
    /\ wire # <<>> /\ req.op = "put" /\ req.task # "nobody"
    /\ Stores(req.rec)
    /\ WriteReturns(req.task, TRUE, req.rec, Tail(wire))
    /\ UNCHANGED <<silent, http, faultsLeft>>

\* A request nobody waits for: a put is applied or lost.
ServeOrphan ==
    /\ wire # <<>> /\ Head(wire).task = "nobody"
    /\ \/ UNCHANGED bucket
       \/ Head(wire).op = "put" /\ Stores(Head(wire).rec)
    /\ wire' = Tail(wire)
    /\ UNCHANGED <<worker, silent, http, faultsLeft>>

Serve == ServeGet \/ ServePut \/ ServeOrphan

\* The request that times out at i.  Without the get's answer the record keeps its
\* own flag; a put that raised leaves the copy in memory alone.
GivesUp(i) ==
    LET req == wire[i]
        rest == [wire EXCEPT ![i].task = "nobody"]
    IN
    /\ req.task # "nobody"
    /\ \/ /\ req.op = "get"
          /\ raced' = (raced \/ req.rec.hidden # workersKv.hidden)
          /\ wire' = Append(rest, Request(req.task, "put", req.rec))
          /\ UNCHANGED worker
       \/ /\ req.op = "put"
          /\ WriteReturns(req.task, FALSE, req.rec, rest)
          /\ UNCHANGED raced

GiveUp ==
    /\ Charge(FALSE)
    /\ \E i \in DOMAIN wire : GivesUp(i)
    /\ UNCHANGED <<bucket, silent, patch, asked, lapsed, patchesLeft>>

-----------------------------------------------------------------------------
(* PATCH /workers/{worker_id}: get, change the flag, put the whole record.  *)

NoPatch == [pc |-> "idle", rec |-> NoRecord]

\* (A hidden worker has been seen by whoever hid it.)
Refreshed(rec, hidden) == [rec EXCEPT !.hidden = hidden, !.age = 0]

Patched(rec, hidden) == [rec EXCEPT !.hidden = hidden]

PatchGet ==
    /\ patch.pc = "idle" /\ patchesLeft > 0 /\ workersKv # NoRecord
    /\ \E hidden \in BOOLEAN : patch' = [pc |-> "got", rec |-> Patched(workersKv, hidden)]
    /\ patchesLeft' = patchesLeft - 1
    /\ UNCHANGED <<bucket, worker, wire, silent, asked, raced, lapsed, faultsLeft>>

PatchPut ==
    /\ patch.pc = "got"
    /\ \E ok, applied \in BOOLEAN :
        /\ ok => applied
        /\ Charge(ok)
        /\ IF applied
           THEN /\ Stores(patch.rec)
                /\ asked' = patch.rec.hidden /\ lapsed' = FALSE
                /\ raced' = \E i \in DOMAIN wire : wire[i].op = "put"
           ELSE UNCHANGED <<bucket, asked, raced, lapsed>>
    /\ patch' = NoPatch
    /\ UNCHANGED <<worker, wire, silent, patchesLeft>>

-----------------------------------------------------------------------------
(* External: the clock.  Between two ticks a heartbeat is written; requests *)
(* that take longer than an interval are a fault.                           *)

Older(age) == IF age > Timeout THEN age ELSE age + 1
Aged(rec) == IF rec = NoRecord THEN rec ELSE [rec EXCEPT !.age = Older(@)]

OnTime == phase \in Off \/ (phase = "up" /\ wire = <<>> /\ beat = "asleep")

Tick ==
    /\ Charge(OnTime)
    /\ workersKv' = Aged(workersKv)
    /\ kept' = IF workersKv # NoRecord /\ kept < Lifetime THEN kept + 1 ELSE kept
    /\ registry' = IF phase \in Off THEN registry ELSE Aged(registry)
    /\ wire' = [i \in DOMAIN wire |-> [wire[i] EXCEPT !.rec = Aged(@)]]
    /\ patch' = [patch EXCEPT !.rec = Aged(@)]
    /\ silent' = IF phase \in {"dead", "stopped"} THEN Older(silent) ELSE silent
    /\ beat' = IF beat = "asleep" THEN "due" ELSE beat
    /\ UNCHANGED <<phase, running, asked, raced, lapsed, patchesLeft>>

-----------------------------------------------------------------------------
(* The specification *)

Init ==
    /\ workersKv = NoRecord /\ kept = 0
    /\ registry = NewRecord(FALSE)
    /\ phase = "never" /\ running = FALSE /\ beat = "due"
    /\ wire = <<>>
    /\ silent = 0
    /\ patch = NoPatch /\ asked = FALSE /\ raced = FALSE /\ lapsed = FALSE
    /\ patchesLeft = MaxPatches /\ faultsLeft = MaxFaults

Next ==
    \/ StartWorker \/ StartJob \/ FinishJob \/ AbandonJob \/ WriteWheelStatus
    \/ Close \/ Crash \/ Beat
    \/ ServeGet \/ ServePut \/ ServeOrphan \/ GiveUp
    \/ PatchGet \/ PatchPut
    \/ Tick \/ Expire

Spec == Init /\ [][Next]_vars

\* Requests are served, the heartbeat task is scheduled and time passes; jobs,
\* patches, starts, closes and faults need not happen.
FairSpec == Spec /\ WF_vars(Serve) /\ WF_vars(Beat) /\ WF_vars(Tick)

-----------------------------------------------------------------------------
(* Properties *)

RequestRecord ==
    [task : Tasks \cup {"nobody"}, op : {"get", "put"}, rec : Record]

\* The variables have their types: no record is stored with a state or an age
\* it cannot have.
TypeOK ==
    /\ workersKv \in Record \cup {NoRecord} /\ kept \in 0..Lifetime
    /\ registry \in Record
    /\ phase \in Off \cup {"starting", "up", "closing"}
    /\ running \in BOOLEAN /\ beat \in {"due", "asleep"}
    /\ wire \in Seq(RequestRecord)
    /\ silent \in Ages
    /\ patch \in [pc : {"idle", "got"}, rec : Record \cup {NoRecord}]
    /\ asked \in BOOLEAN /\ raced \in BOOLEAN /\ lapsed \in BOOLEAN
    /\ patchesLeft \in 0..MaxPatches /\ faultsLeft \in 0..MaxFaults

\* Without a fault, whenever the main task is between two writes, the copy in
\* memory says what the worker is doing, although the heartbeat task writes the
\* same record back, as it was before its put, at any time in between.
MemoryIsRight ==
    faultsLeft = MaxFaults /\ MainIsFree =>
        registry.state = IF running THEN "RUNNING" ELSE "IDLE"

\* A worker whose process ended longer than the timeout ago is in no default
\* listing, whatever it left on the wire and however its flag was patched since.
DeadIsNotActive == phase \in Off /\ silent > Timeout => ~Listed(workersKv)

\* The bucket holds the flag the last PATCH stored, through jobs, heartbeats,
\* restarts and a close, unless the worker had read the flag before that PATCH
\* stored it, or could not read it, or the record outlived its TTL while no worker
\* renewed it; heartbeats that do not fail renew it in time if the TTL is longer
\* than one interval.
HideIsKept == ~raced /\ ~lapsed => workersKv.hidden = asked

\* Without a fault the record of a closed worker says so until it is started
\* again, whatever its tasks had under way, or until the TTL of the bucket drops
\* it as a whole; only a PATCH that overlaps the close can make it say another.
StoppedIsKept ==
    [][/\ faultsLeft = MaxFaults /\ phase = "stopped"
       /\ workersKv.state = "STOPPED_GRACEFUL" /\ workersKv'.state # "STOPPED_GRACEFUL"
       => \/ patch.pc = "got"
          \/ workersKv' = NoRecord /\ Lifetime > 0 /\ kept >= Lifetime]_vars

\* When the worker stays up and its state in memory stays the same, the bucket
\* gets to that state and keeps it, whatever writes were lost or came late and
\* whatever old record a PATCH put back.
RecordCatchesUp ==
    \A state \in States :
        <>[](phase = "up" /\ registry.state = state) => <>[](workersKv.state = state)

=============================================================================
