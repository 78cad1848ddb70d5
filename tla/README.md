# TLA+ models of pyoco-server

pyoco-server runs workflows (pyoco flows) over NATS JetStream: an HTTP gateway
accepts runs and writes their snapshots to a key-value bucket, a work-queue
stream carries the jobs, and worker processes pull, execute and acknowledge
them. There is no database and no coordinator. What is correct depends on the
order of reads and writes that different processes, and different tasks of one
process, make to the same few keys, and on what happens when one of them fails.
That is what these modules describe.

The modules are translated from the code under `src/`; the documents are only
used for what they promise, in the runs that compare the code with a promise.

## The system

| Part | Code | State | Operations | Talks to |
|---|---|---|---|---|
| Run handlers | `http_api.py`, `bundle_runtime.py` | none of its own; requests in flight | submit (by name, YAML, bundle), approve, reject, cancel | runs bucket, relations bucket, work queue |
| Direct client | `client.py` | none | submit, reads | runs bucket, work queue |
| Runs bucket, work queue | `resources.py` | one snapshot per run; jobs with their deliveries | get, put, delete; publish, fetch, ack, nak, term | gateway, workers |
| Worker | `worker.py` | run context, cancel state, heartbeat, in-progress loop | fetch, execute, acknowledge; heartbeat; cancel | runs bucket, work queue, engine |
| Trace backend | `trace.py` | dirty flag, flush runner | callbacks from the engine, coalesced flush | runs bucket |
| YAML schedules | `schedules.py`, `http_api.py` | a record per schedule with a lease; a dispatch loop per gateway | create, delete, scan, claim, submit, record, release | schedules bucket, run handlers |
| Worker registry | `worker.py`, `http_api.py` | a record per worker; the worker's copy | heartbeat, state changes, hide, list | workers bucket |
| Spawned runs | `bundle_runtime.py`, `worker.py` | relation records; a count and a set of active children per execution | submit a child, wait for it | runs and relations buckets, work queue, the parent's engine |
| Wheels | `http_api.py`, `worker.py` | object store, manifest file | upload, delete; plan, download, install | object store, registry |
| Run listing and watch | `http_api.py` | none of its own; the client's cursor, a stream's last revision | list a page, watch a run | runs bucket |
| Single reads, metrics | `http_api.py` | none | reads | runs bucket |
| Snapshot compaction | `models.py` | none | a pure function | trace backend, worker |
| Workflow parsing | `workflow_yaml.py`, `bundle_runtime.py` | none | pure functions | handlers |
| Authentication | `auth.py`, `admin_cli.py` | key records | create, revoke, verify | auth bucket |

What makes it hard:

- **Blind writes.** Every snapshot is written whole with an unconditional put by
  up to five writers: the request handlers, the worker's handler, its heartbeat,
  its flush runner, and a second worker after a redelivery. Each decides on
  what it read before an await.
- **Failed calls.** A call that raises may have been applied. What follows
  depends on the type of the exception (a NATS error or any other) and on the
  except clause that happens to catch it.
- **At-least-once delivery.** Acks are lost, the ack wait runs out while a run is
  still executing, workers die; a run may be executed twice, also concurrently.
- **Tasks that outlive their handler.** The flush runner is never awaited and a
  heartbeat can be leaked.
- **Leases.** Several gateways poll the same schedules; only a compare-and-set
  and a lease stand between them and duplicate runs.
- **Runs that wait for runs.** A parent keeps its worker while its tasks, threads
  of their own, wait for children that need a worker too.
- **Records with several writers.** A worker's record is read, changed and written
  back by its job, by its heartbeat and by the API's PATCH.
- **Reads that are no snapshots.** A page of runs is put together key by key, the
  next page is another request, and a synchronisation lists wheels that are
  replaced while it fetches them.

What each part must guarantee, in short: an accepted run is executed to a
terminal snapshot, none is cancelled or started without someone's decision, a
status does not come back from terminal while nobody interferes, the queue
drains; a due schedule is dispatched, once unless something fails, and never
after it was closed; a parent spawns no more children than it may, waits only
for children that can end, stops waiting when it must, and completes after them.

## Modules

| Module | Models | Extends |
|---|---|---|
| `RunStore` | the runs bucket and the work queue, and what a remote call can do | |
| `RunGateway` | the handlers that write a run, step by step | `RunStore` |
| `RunWorker` | a delivery's handler, engine, heartbeat, flush runner and in-progress loop | `RunStore` |
| `RunSystem` | both together; fairness; the properties of runs; the mapping to the contract | `RunGateway`, `RunWorker`; instance of `RunContract` |
| `RunContract` | the abstract specification: what is promised of runs, seen from outside | |
| `MCRunSystem` | which API calls TLC's behaviours make | `RunSystem` |
| `RunSystem_proofs` | types; no accepted run is lost; retries need faults | `RunSystem` |
| `RunDecisions_proofs` | cancels are asked for; approval is required; who may change a terminal status; no run hangs without a fault | `RunSystem_proofs` |
| `RunContract_proofs` | `RunSystem` implements `RunContract` | `RunDecisions_proofs` |
| `ScheduleDispatch` | schedule records, API and dispatch loops | |
| `MCScheduleDispatch` | its instance | `ScheduleDispatch` |
| `ScheduleDispatch_proofs` | interval arithmetic, types, all its invariants, closed schedules | `ScheduleDispatch` |
| `SpawnRuns` | parents, their spawn calls, their children, shared workers | |
| `MCSpawnRuns` | its instances | `SpawnRuns` |
| `SpawnRuns_proofs` | types and all its invariants | `SpawnRuns` |
| `WorkerRegistry` | a worker's record and its writers | |
| `MCWorkerRegistry` | its instance | `WorkerRegistry` |
| `WorkerRegistry_proofs` | types and all its safety properties | `WorkerRegistry` |
| `WheelSync` | the wheel store, its API, and a worker's synchronisation | |
| `MCWheelSync` | its instances | `WheelSync` |
| `WheelSync_proofs` | types, recorded files, "ok" | `WheelSync` |
| `RunListing` | listing runs along `next_cursor` and watching a run, beside writers | |
| `MCRunListing` | its instance | `RunListing` |
| `RunListing_proofs` | types and both invariants of the walk | `RunListing` |

### How runs are modelled

A step is what the code does between two awaits: one remote call and the local
assignments around it. So processes interleave exactly where asyncio can switch.

*Snapshots* keep the three fields the handlers branch on: the status, whether a
cancel request is recorded (`cancel_requested_at`), and the approval status. An
absent snapshot stands for a missing and for a deleted key; the handlers answer
404 to the first and fail on the second, and the model calls both "refused",
because nothing is written either way. `reached` remembers which runs ever had
a terminal snapshot stored; no action reads it.

*Remote calls* (`Remote`) succeed or raise, "NatsError" or "Exception" as the
except clauses tell them apart, and one that raises may have been applied. Each
failure takes one from `faultsLeft`; so do crashes, lost acks and the end of an
in-progress loop. `msg.ack()` has no reply, so it can also be lost without an
exception.

*Requests* (`request[q]`) walk through the calls of their handler: `new`,
`relate` (the relation record of a bundle), `put`, `publish`, `undo`, `done`.
`seen` is what the handler's `kv.get` returned; approve, reject and cancel
decide on it and write a snapshot made from it, whatever the key holds by then.

*Deliveries* (`delivery[d]`): a slot is one delivery of a message to a worker,
with the handler's position, the run context's status, the shared cancel state,
the metadata copied at the start, and the three tasks beside the handler. A
slot whose handler is `done` can still have a heartbeat or flush runner that
writes. The engine is external: it starts, reports events, and completes, fails,
or is cancelled once `Engine.cancel` was called on a running flow
(`StatusAfterBeat`). `Engine.cancel` before the start does nothing, so the
heartbeat's repeated call matters.

Left out of runs: parameters, task records, timestamps, worker ids, logging,
authentication and validation (a request that fails them writes nothing), and
the worker registry calls in the same handlers. An exception out of
`run_once`'s own ack or term ends the command-line worker's process; the model
lets the slot's other tasks go on, which allows more behaviours, not fewer. A
nak that arrives after the ack wait puts the message back at once; the two
second delay is not a time the model knows.

### The contract of runs

`RunContract` knows a job per run, the status its snapshot shows, and sets of runs
that have ended, were accepted, approved, or asked to stop. Since snapshots are
put blindly and runs are redelivered, a status may be shown again after a later
one; so the contract does not say which status follows which, but on what grounds
a status may be shown (`Grounds`: nothing runs that was not queued, nothing stops
that nobody asked to stop, a run that needs approval is queued once per approval
at most), and that the queue forgets a job only after its run has ended.
`RunSystem` maps its stream, snapshots and requests to these (`Jobs`, `Shown`,
`Accepted`, `Approvable`, `StopAsked`), and `KeepsContract` is the contract's
specification under that mapping.

### How schedules are modelled

A record keeps its status, revision, `next_run_at`, `start_at`, `lease_until`
and `dispatch_count`. Times are integers relative to now, and `Tick` moves the
origin, so the model needs no bound on the clock: times that have come stay at
0, and an anchor in the past moves along its own grid
(`ComputeIntervalNextRunAt` gives the same answer for both). "No lease" and "a
lease that has run out" are the same, as `claim_is_active` treats them.

`Update` is the bucket's compare-and-set; an update refused because of the
revision costs no fault, one that raises otherwise does, and may have been
applied. A dispatcher goes through `scan`, `claim`, `put`, `publish`,
`finalize` and, after any exception, `release`. Submitting the run is the pair
of calls `RunGateway` models as `SubmitPut` and `PublishJob`; here only the job
in the queue counts (`queued`). A loop whose lease runs out before its last
update pays a fault at that `Tick`. The delay between computing a finalizing
record and its storage is not modelled; the gateways' clocks agree.

### How spawned runs are modelled

A parent is *one execution* of a flow with spawn tasks; a redelivered run is a
further parent, because the code gives it a new `SpawnOrchestrator`. A child is
named by its parent and the call that spawns it. A call goes through `put`,
`relate`, `publish` (`create_run_record`), `register` (back in the thread: the
child becomes active and is listed) and `wait`, and through `undo` and `unrelate`
when the submission fails; calls of one parent interleave freely, because the
engine runs tasks in threads. The put of the snapshot is outside the `try`, so
its failure undoes nothing. A call that raises may have been applied.

The engine is external: it starts calls in any order while it executes, may start
one it had handed to a thread when the flow is cancelled, and returns once its
calls have returned. Children are taken, end, and are acknowledged; how they are
executed in between is `RunWorker`'s subject, and a crash that redelivers a child
makes its snapshot RUNNING again. `Workers` counts executions at a time, for
parents and children together (a worker process runs one job after another); a
parent's own terminal put and ack are part of `EngineEnd`. `Timed` are the
parents whose workers have `spawn_timeout_sec > 0`; the limits are those of the
parent's worker. Left out: tags, parameters, the summary built from a child's
snapshot, the depth check (children have no calls), and a run whose first read
failed, which has no list of children to begin with.

### How the worker registry is modelled

The record keeps its state, its hidden flag, and its age: the time since
`last_seen_at`, up to just above the timeout. The worker has two tasks that share
`self._registry` and one connection: the main task writes at the start, at the
begin and end of a job, for a wheel status and at the close, the heartbeat task
once per interval. Each write is a get, which takes the bucket's flag into the
copy in memory, and a blind put; `wire` holds the requests under way in the order
they were sent, which is the order they are served in, and a task can give one up
after a timeout, whether or not it is still served. PATCH is a get and a put with a
gap in between. The bucket is created with a TTL (`resources.py:57`,
`workers_kv_ttl_sec`, 15 s by default, where heartbeats come every 5 s and the
disconnect timeout is 20 s): `kept` is the time since the record was put, and
`Expire` drops the record, whatever it says, some time after `Lifetime`. The next
write of a worker that is up stores it again. `asked`, `raced` and `lapsed` are
history: the flag the last PATCH stored, whether a write of the worker had read the
flag before or could not read it, and whether the record expired since then while
nothing renewed it.

### How wheels are modelled

A wheel is a package and a version; an upload gives its object a new nuid, which
stands for the content as well. The API's upload checks the listing for a newer
version, and, unless it replaces, once more for the name, before its put; its delete is a lookup
and a delete. The worker's synchronisation lists the store, keeps the latest wheel
of each package among those its tags and platform allow, removes files and entries
that are not wanted, then per wheel fetches, installs and records, and saves the manifest once at
the end. Every call can fail and the worker can crash in between; `unsaved`
counts synchronisations that were cut off after the listing.
Listing an empty store raises, as the API's own handlers expect.

### How listing and watching are modelled

A snapshot is its `updated_at` and the bucket's revision of its put. A writer reads
the clock (`Stamp`) and its put arrives later (`Put`), so puts need not arrive in
the order of their times: a run can move down in the listing as well as up. A
request lists the keys (of an empty bucket it cannot, and fails), reads them one by
one in any order (`ReadSnapshot`), and answers a page (`AnswerPage`): newest first by
time and run id, filtered by `updated_after` and `cursor`, cut at `limit`. A client
takes `next_cursor` into its next request until there is none. `touched` and `backdated` are history: the
runs put since the walk began, and those whose time went back.

A stream sends the first snapshot unless it is older than `since`, then every new
revision that is not, until its deadline; its client opens it again with `since` =
the time of its last event. Heartbeat events and the filters by field are left out.

## Runs

`D` is the number of distinct states TLC finds.

| Run | Question | Bounds | D |
|---|---|---|---|
| `cancel_faults` | `TypeOK`, `NoAcceptedRunLost`, `CancelOnlyIfAsked` | 1 run, submit and cancel, 2 workers, 2 deliveries, 2 faults | 1.24 M |
| `approval` | `ApprovalGate`, `KeepsContract`, `TerminalIsFinal` | a spawning bundle, 2 approves, 1 reject, 1 fault | 312 k |
| `calm` | `HangingNeedsFaults`, `TerminalIsFinal`, `QueueDrains`, `KnownCancelStopsFlow` | a bundle that is cancelled, another run, an undecodable message, no fault; tasks need not end | 59 k |
| `finish` | `RetriesNeedFaults`, `AcceptedRunsFinish`, `KeepsContract` | an approved bundle, 3 deliveries, 2 faults | 73 k |
| `schedules` | `TypeOK`, `RecordedIsQueued`, `OnTheGrid`, `DuplicatesNeedFaults`, `ClosedStaysClosed`, `DueIsDispatched` | one schedule of either type, 2 gateways, 3 faults | 298 k |
| `spawn` | `TypeOK`, `ChildLimit`, `ActiveIsWaiting`, `AwaitedChildIsQueued`, `CompletedAfterChildren`, `CallsReturn`, `CancelledParentStops` | 2 parents (2 calls with a limit of one child and a deadline; 1 call, one at a time, no deadline), 2 workers, 2 faults | 111 k |
| `workers` | `TypeOK`, `MemoryIsRight`, `DeadIsNotActive`, `HideIsKept`, `StoppedIsKept`, `RecordCatchesUp` | timeout of 1 interval, TTL of 2, 1 PATCH, 2 faults | 1.10 M |
| `wheels` | `TypeOK`, `RecordedIsFile`, `OkMeansInstalled`, `SyncConverges` | 4 wheels of 2 packages, 3 of them selectable, 2 requests at a time, 2 uploads, 2 faults | 95 k |
| `listing` | `TypeOK`, `WalkIsExact`, `TwiceOnlyIfBackdated`, `WatcherCatchesUp` | 3 runs, pages of 1 and 2, 4 puts, 2 times, 1 fault | 1.47 M |

Why these bounds are enough for the interesting cases: two deliveries of one
message allow an execution to be overtaken by its redelivery, which needs one
fault (a lost ack, a crash, an expired ack wait), and a second fault can then
hit either of them. Runs do not share state except the queue, so one run per
safety instance suffices; `calm` has two plus an undecodable message to
exercise the queue. With three decisions on a waiting run every pair races and
one comes late. Two gateways suffice for a race on a claim, and schedules share
no state; an interval of two ticks lets a dispatch be late without reaching the
next occurrence, and a lease of two lets it expire before or after the
occurrence. In `spawn` the two parents can occupy both workers, so that no child
can be taken; the parent with two calls meets its limit with the first call in
every stage, and two faults make a submission fail and its rollback fail too.
In `workers` two faults let a put be given up and arrive late, and a process die
after it; a TTL of two intervals is the shortest that heartbeats renew in time, and
a timeout of one has a dead worker shown as disconnected before its record goes; in `wheels` a package has two versions, so an upload can supersede what
a synchronisation has listed, and be deleted again while it is fetched, and two
faults cut off a synchronisation and the one after it. With
three runs a page of one or two ends between equal times, and with four puts one
run can be put twice, the second time with an older time, while another is new.
Workers and gateways are symmetric in the safety runs; the liveness runs use no
symmetry.

Deadlock checking is off in the runs of `RunSystem` because a behaviour's
requests are used up and a message can run out of deliveries: the system then
rests. `SpawnRuns` rests when everything has ended, and also when a parent without
a deadline waits for a child that no worker is left to take: the code has no
other way out of that wait. `RunListing` rests when the walk is over and the puts
are used up. `ScheduleDispatch`, `WorkerRegistry` and `WheelSync` never rest, and
are checked for deadlock.

### Where the code and a document disagree

Each of these runs checks one promise, and TLC finds a behaviour of the code that
breaks it.

| Run | Promise | What happens |
|---|---|---|
| `doc_heartbeat` | a heartbeat keeps the meaning of the status (`docs/spec.md:1099`), a terminal status is not updated any more (`docs/spec.md:544`) | the ownership put raises, FAILED is recorded, and the heartbeat task created before that put goes on writing PENDING; with no fault allowed, the heartbeat reads, a cancel is stored, and the heartbeat stores RUNNING over it |
| `doc_parallel` | the number of children at a time is limited (`docs/spec.md:347`) | two spawn tasks start together, both pass the check, and both children are queued: a child counts only after its submission returned |
| `doc_removed` | a wheel deleted in the registry is removed from the worker (`docs/architecture.md:434`) | the last wheel is deleted, listing the empty store raises, and the synchronisation ends in an error before it removes anything, for good |

A cancel can also overwrite a terminal status: it reads RUNNING, the worker stores
COMPLETED, the cancel stores CANCELLING, and no worker is left to act on it.
`HangingNeedsFaults` says that, without faults, this is the only way a run is left
going on for good with nobody to end it.
`TerminalIsFinal` says that, without faults, nothing but a cancel's put does so,
with one exception: two decisions that both read the run while it waited for
approval (`RacedDecisions`) each write their own outcome, so an approve after a
reject revives a cancelled run, and two approves queue two jobs.

The TTL of the workers bucket contradicts four places that say what a record is for
after its worker has stopped: "`STOPPED_GRACEFUL` is kept" (`docs/architecture.md:430`,
`docs/config.md:163`), the bucket "does not depend on a TTL" (`docs/spec.md:978`), and a
worker that starts keeps the `hidden` it had (`docs/spec.md:1130`). With the defaults a
worker that is down for 15 s loses all of its record, before it would be shown as
disconnected: it is gone from `scope=all`, and comes back visible. `HideIsKept`
and `StoppedIsKept` state this exception: they say that nothing else takes the flag or
the state away, that the expiry does not come before the TTL, and that, without
faults, it does not hit a worker that is up.

## Fairness

`RunSystem`: weak fairness for every step of a handler, heartbeat and flush
runner (event loops keep running their tasks), for fetching (workers poll while
there are messages) and for the ack wait (a timer of the server). None for
faults, for the client's calls to succeed, or for the engine's events. That a
flow's tasks end is an assumption about users' code and separate: `FairSpec`
has it, `EndlessTasksSpec` does not, so there a flow may go on for ever, also when
it was told to cancel: `Engine.cancel` is cooperative, and the code logs a cancel
that does not converge (`worker.py:752-769`, ERR-PYOCO-0021 in `docs/spec.md:442`).
The run `calm` uses the latter, and its properties take what they need of the tasks
as premises: `QueueDrains` that tasks end (`TasksEnd`), `KnownCancelStopsFlow` for
its second half that flows heed a cancel (`TasksHeedCancel`). Its first half, that
a running flow is told of a cancel the worker knows of, has no premise.
`AcceptedRunsFinish` needs `MaxDeliver` above the number of faults,
since the code gives up on a message that used up its deliveries.

`ScheduleDispatch`: weak fairness for each gateway's loop and for time. A
crashed gateway is started again.

`SpawnRuns`: weak fairness per parent for "a call takes its next step, or the
engine returns" (threads and event loop of a process keep going); none for the
single call, and none for children: that one ends, or is even taken, is not
assumed, so what ends a wait is the deadline or the cancel.

`WorkerRegistry`: weak fairness for the server to serve requests, for the
heartbeat task, and for time; none for jobs, PATCH or the end of a process.

`WheelSync`: weak fairness for the worker's synchronisation (`_pull_loop` starts
one per interval and goes through it); none for requests.

`RunListing`: weak fairness for the stream's loop, and for its client, who opens
it again when it ends; none for writers and walks.

## What is proved

For every value of the constants, from the named assumptions of the modules
(`StoreAssumption`, `GatewayAssumption`, `WorkerAssumption`,
`ScheduleAssumption`, `SpawnAssumption`, `RegistryAssumption`,
`WheelAssumption`, `ListingAssumption`; those with content are that run ids are
fresh, one submit per run, that children, wheels and listed runs are finitely
many, and that limits of a page are positive):

- `TypeInvariant` (`RunSystem_proofs`). The induction is over `Typed`, which adds
  to `TypeOK` that a handler past `fetched`, a heartbeat or a scheduled flush
  belongs to a run of `Runs`, and a handler at work to a message of the stream.
- `AcceptedRunsKept` (`RunSystem_proofs`): `NoAcceptedRunLost`. The invariant
  `QueueInv` adds the reason: a handler that may ack (`settled`, `closing`) has
  seen its run terminal (`DeliverySound`), a message that left the queue belongs
  to such a run or did not decode (`DropSound`), and an accepted request has its
  message in the stream (`AcceptSound`).
- `RetriesArePaidFor` (there too): `RetriesNeedFaults`. Counting: the deliveries of
  a message that waits, or is out with nobody reporting progress on it, plus the
  handlers that are on their way to a nak, never exceed the faults spent
  (`RetryInv`, an induction over cardinalities). A handler gets on that way, stops
  reporting, or leaves its message out only by a fault.
- `CancelsAreAsked` (`RunDecisions_proofs`): `CancelOnlyIfAsked`. `CancelInv`
  follows the request from the cancel call that decided on a live snapshot,
  through the snapshots others read, to the worker's cancel state.
- `ApprovalIsRequired` (`RunDecisions_proofs`): `ApprovalGate`. `ApprovalInv`
  says that an approve past its read saw PENDING_APPROVAL, and that a spawning
  bundle's own submit never publishes.
- `TerminalStatusesStay` (there too): `TerminalIsFinal`. While nothing has failed a
  run has one writer after the other, and `SteadyInv` says who is left: a run that
  needs approval is queued by the one decision that read it waiting, any other by
  its own submit (`SteadyMessage`); a run has one job unless decisions raced on it,
  and a job one delivery, since a handler that reports progress keeps its message
  (`OneJobEach`, `OneDeliveryEach`); where that handler stands says which of its
  tasks can still write, and what (`SteadyRecord`). So once the status is terminal
  nobody is left to queue the run, decide on it or execute it, and what the tasks
  beside the handler still put is that same status (`Over`). `CalmInvariant` proves
  it for every instance; that it is inductive was checked by TLC first.
- `HangingIsPaidFor` (there too): `HangingNeedsFaults`. `TendedInv` names who is left
  to end a run: its message, a handler that has not stored a terminal snapshot, or a
  request between its put and its publish. A job is handed from the one to the next
  without a gap, and by `SteadyInv` what the tasks beside the handler put back is
  live only while the handler has its end before it. Only a cancel cannot
  know: whatever it read, the run may have ended since, so a run left CANCELLING is
  tended or one that had reached its end before (`reached`).
- `RunsKeepTheContract` (`RunContract_proofs`): every step of `RunSystem` is a step
  of `RunContract` or none. `ContractInv` adds to the invariants above the grounds
  of what is held in memory: a status a handler, heartbeat, flush runner or request
  may still put back was shown on grounds that last.
- `SpawnTypes`, `ChildrenAreLimited`, `ActiveChildrenAreAwaited`,
  `WaitsAreForRealChildren`, `ParentsCompleteLast` (`SpawnRuns_proofs`). The limit holds because calls begun
  never exceed `spawn_count` (`Counted`, an induction over cardinalities), and the
  children in being belong to calls begun. `Submitted` says what each stage of a
  call has stored; `Joined` that a call which returned has seen its child
  terminal, and that a flow completes only when all its calls did.
- `ScheduleTypes`, `ClosedSchedulesStayClosed` (`ScheduleDispatch_proofs`).
  `ClaimStands` is the argument of the compare-and-set: what a loop holds is the
  current revision of an active record, or an older revision than the key has.
  `NextRunIsNext` is the interval arithmetic: for all integers the next run is
  after now, at most an interval away once the anchor has passed, and on the
  anchor's grid.
- `RecordedDispatchesWereMade`, `SchedulesStayOnTheGrid` (there too). `Sound` says
  that stored and claimed records alike are on the grid and counted no higher
  than what is queued.
- `DuplicatesArePaidFor` (there too). `Leases` says that a loop whose lease stands
  is the only one that holds the current revision; `Paid` counts: jobs, and loops
  that may still queue one although their lease ran out, never exceed what is
  recorded, what can still be recorded in time, and the faults spent.
- `RegistryTypes`, `DeadWorkersAreNotListed`, `HiddenFlagIsKept`
  (`WorkerRegistry_proofs`). Nothing stored or on the wire is younger than the time
  the process has been gone, and every put under way carries the flag the last PATCH
  stored, unless a write missed it or the record expired (`WireInv`, `StoredInv`).
  Without faults the record of a worker that is up was put after the last tick but
  one (`KeptInv`), so it does not expire if the TTL is longer than one interval.
- `MemoryStaysRight`, `StoppedWorkersStayStopped` (there too), both without faults.
  `Orderly` says in what order puts can reach the record: each task has one request
  under way, the main task's carries the state it is in (`Intent`), and a heartbeat's
  that carries an older one has its put served before it (`MainComesLast`), also
  when the worker closes; so once the process has ended the wire is empty.
- `WheelTypes`, `RecordedWheelsAreFiles`, `OkWheelsAreInstalled`
  (`WheelSync_proofs`). The second rests on nuids being fresh: an object that is in
  the store now was there ever since its nuid was first seen (`FileInv`). The third
  on what a synchronisation that was cut off can leave behind (`InstalledInv`).
- `ListingTypes`, `WalksAreExact`, `RunsAreListedOnce` (`RunListing_proofs`). The
  first part are lemmas about the order and the pages of a finite set of keys: a
  page is closed upwards, what is off it is below all of it, and it is full or holds
  everything. `WalkInv` then says that, between pages, the matching runs nobody
  writes to are listed exactly if the cursor has passed them, and that a run whose
  time never went back only moves up, behind the cursor.

Only model-checked: the liveness properties (`AcceptedRunsFinish`, `QueueDrains`,
`KnownCancelStopsFlow`, `DueIsDispatched`, `CallsReturn`, `CancelledParentStops`,
`RecordCatchesUp`, `SyncConverges`, `WatcherCatchesUp`): fairness and ENABLED are out of
the prover's reach. Every safety property that a passing run checks is a theorem.
The violations found by the three `doc_` runs are counterexamples of TLC. Nothing is proved about recursive definitions; the
modules have none.

## Not modelled

- Parsing and validation of YAML and bundles: one pass over a document without
  state. What follows from it, whether a run needs approval and which limits apply,
  are constants of the models.
- Authentication and tenants: a key record is written whole by one command and read
  once by a request; a tenant narrows what a request sees.
- Snapshot compaction and task records: data that no handler branches on. The
  trace backend and the dead-letter stream are modelled as far as they touch
  statuses and messages.
- Single reads (a run, its tasks, metrics, schedules, wheel history): they read
  once, change nothing, and promise nothing about the time between reads.
- The HTTP client, the command lines, configuration and logging: wrappers without
  state of their own. The dashboard: a page that polls the API.
- Of wheels: the history events (an audit log nobody reads back), partly written
  files, a sync directory shared by two workers, several builds of one version.
- Of schedules: `start_at` 0.0 counts as missing, and floating-point rounding in
  the interval arithmetic; both need absolute times.

Hazards that no property covers are listed in `PROJECT.json` with the reason; most
are behaviours no document makes a promise about, such as a gateway that dies
between an approve's put and its publish, or a redelivered parent that spawns its
children anew.
