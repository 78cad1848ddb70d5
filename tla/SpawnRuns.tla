----------------------------- MODULE SpawnRuns ------------------------------
(* Parent runs that spawn child runs and wait for them, over a pool of     *)
(* workers that parents and children share: SpawnOrchestrator and          *)
(* create_run_record of bundle_runtime.py.                                 *)
(*                                                                         *)
(* A parent is one execution of a flow with spawn tasks (a redelivered run *)
(* is another one, with an orchestrator of its own).  Its spawn tasks run  *)
(* in threads of the engine; a spawn call submits one child.  How a child  *)
(* is executed is RunWorker's subject; here it is taken, and ends.         *)
EXTENDS Integers, FiniteSets

CONSTANTS
    Parents,        \* executions of flows with spawn tasks
    Children,       \* <<parent, call>>: the children their spawn calls ask for
    Workers,        \* how many runs can be executed at a time
    MaxChildRuns,   \* parent -> its worker's spawn_max_child_runs (0: no limit)
    MaxParallel,    \* parent -> spawn_max_parallel_child_runs (0: no limit)
    Timed,          \* parents with spawn_timeout_sec > 0
    MaxFaults       \* bound: calls that raise, and crashes

ASSUME SpawnAssumption ==
    /\ MaxChildRuns \in [Parents -> Nat] /\ MaxParallel \in [Parents -> Nat]
    /\ Workers \in Nat /\ MaxFaults \in Nat
    /\ Timed \subseteq Parents
    /\ IsFiniteSet(Children) /\ \A x \in Children : x[1] \in Parents

VARIABLES
    flow,           \* parent -> where its execution stands
    call,           \* child -> where the call that spawns it stands
    orchestrator,   \* parent -> spawn_count, active children, children listed
    runsKv,         \* child -> status of its snapshot
    reached,        \* children whose snapshot has been terminal at some time
    relations,      \* children with a relation record
    job,            \* child -> state of its message in the work queue
    faultsLeft

vars == <<flow, call, orchestrator, runsKv, reached, relations, job, faultsLeft>>

Of(p) == {x \in Children : x[1] = p}
Executing(p) == flow[p] \in {"running", "cancelling"}
Taken == {"out", "settled"}
Calling == {"put", "relate", "publish", "undo", "unrelate", "register", "wait"}

Charge(ok) ==
    /\ ok \/ faultsLeft > 0
    /\ faultsLeft' = IF ok THEN faultsLeft ELSE faultsLeft - 1

\* A call on a bucket that raised may have been applied.
Applied(ok) == IF ok THEN {TRUE} ELSE BOOLEAN

Goto(x, pc) == call' = [call EXCEPT ![x] = pc]

-----------------------------------------------------------------------------
(* SpawnOrchestrator.spawn: the limits, checked and counted under its lock *)

\* (The last allowed child counted as one too many, or one more allowed.)
OverLimitByOne(p) ==
    \/ MaxChildRuns[p] > 0 /\ orchestrator[p].spawn_count > MaxChildRuns[p]
    \/ MaxParallel[p] > 0 /\ Cardinality(orchestrator[p].active) > MaxParallel[p]

OverLimit(p) ==
    \/ MaxChildRuns[p] > 0 /\ orchestrator[p].spawn_count >= MaxChildRuns[p]
    \/ MaxParallel[p] > 0 /\ Cardinality(orchestrator[p].active) >= MaxParallel[p]

\* A task may have been handed to its thread just before the cancel.
Refuse(p, x) ==
    /\ Executing(p) /\ call[x] = "idle"
    /\ OverLimit(p)
    /\ Goto(x, "failed")
    /\ UNCHANGED <<flow, orchestrator, runsKv, reached, relations, job, faultsLeft>>

Spawn(p, x) ==
    /\ Executing(p) /\ call[x] = "idle"
    /\ ~OverLimit(p)
    /\ orchestrator' = [orchestrator EXCEPT ![p].spawn_count = @ + 1]
    /\ Goto(x, "put")
    /\ UNCHANGED <<flow, runsKv, reached, relations, job, faultsLeft>>

-----------------------------------------------------------------------------
(* create_run_record: snapshot, relation record, job *)

\* The first put is outside the try: when it raises nothing is undone.
PutSnapshot(x) ==
    \E ok \in BOOLEAN : \E applied \in Applied(ok) :
        /\ call[x] = "put"
        /\ Charge(ok)
        /\ runsKv' = IF applied THEN [runsKv EXCEPT ![x] = "PENDING"] ELSE runsKv
        /\ Goto(x, IF ok THEN "relate" ELSE "failed")
        /\ UNCHANGED <<flow, orchestrator, reached, relations, job>>

PutRelation(x) ==
    \E ok \in BOOLEAN : \E applied \in Applied(ok) :
        /\ call[x] = "relate"
        /\ Charge(ok)
        /\ relations' = IF applied THEN relations \cup {x} ELSE relations
        /\ Goto(x, IF ok THEN "publish" ELSE "undo")
        /\ UNCHANGED <<flow, orchestrator, runsKv, reached, job>>

\* (An exception from the publish that is only logged.)
AfterPublishAlways(ok) == "register"

AfterPublish(ok) == IF ok THEN "register" ELSE "undo"

PublishJob(x) ==
    \E ok \in BOOLEAN : \E applied \in Applied(ok) :
        /\ call[x] = "publish"
        /\ Charge(ok)
        /\ job' = IF applied THEN [job EXCEPT ![x] = "ready"] ELSE job
        /\ Goto(x, AfterPublish(ok))
        /\ UNCHANGED <<flow, orchestrator, runsKv, reached, relations>>

\* Both deletes swallow their exceptions; the first one is then raised again.
UndoSnapshot(x) ==
    \E ok \in BOOLEAN : \E applied \in Applied(ok) :
        /\ call[x] = "undo"
        /\ Charge(ok)
        /\ runsKv' = IF applied THEN [runsKv EXCEPT ![x] = "absent"] ELSE runsKv
        /\ Goto(x, "unrelate")
        /\ UNCHANGED <<flow, orchestrator, reached, relations, job>>

UndoRelation(x) ==
    \E ok \in BOOLEAN : \E applied \in Applied(ok) :
        /\ call[x] = "unrelate"
        /\ Charge(ok)
        /\ relations' = IF applied THEN relations \ {x} ELSE relations
        /\ Goto(x, "failed")
        /\ UNCHANGED <<flow, orchestrator, runsKv, reached, job>>

-----------------------------------------------------------------------------
(* Waiting for the child *)

\* Back in the task's thread: the child counts as active only from here on.  It
\* joins the list child_run_ids that the worker copied from the run's snapshot.
Register(p, x) ==
    /\ call[x] = "register"
    /\ orchestrator' = [orchestrator EXCEPT ![p].active = @ \cup {x},
                                            ![p].child_run_ids = @ \cup {x}]
    /\ Goto(x, "wait")
    /\ UNCHANGED <<flow, runsKv, reached, relations, job, faultsLeft>>

\* (An early end that leaves the child in the set of active children.)
StopWaitingOnly(p, x, pc) ==
    /\ Goto(x, pc)
    /\ UNCHANGED <<flow, orchestrator, runsKv, reached, relations, job>>

\* spawn's finally clause.
StopWaiting(p, x, pc) ==
    /\ orchestrator' = [orchestrator EXCEPT ![p].active = @ \ {x}]
    /\ Goto(x, pc)
    /\ UNCHANGED <<flow, runsKv, reached, relations, job>>

\* (Any snapshot of the child taken for its result.)
HasResultIfPresent(status) == status # "absent"

HasResult(status) == status = "terminal"

\* The read may be under way when the parent is cancelled.
ChildEnded(p, x) ==
    /\ call[x] = "wait" /\ HasResult(runsKv[x])
    /\ StopWaiting(p, x, "returned")
    /\ UNCHANGED faultsLeft

\* (A parent that is waiting does not look at its own status.)
GivesUpNever(p) == FALSE

\* The context's status, which Engine.cancel changes.
GivesUp(p) == flow[p] = "cancelling"

ParentCancelled(p, x) ==
    /\ call[x] = "wait" /\ GivesUp(p)
    /\ StopWaiting(p, x, "failed")
    /\ UNCHANGED faultsLeft

\* (A deadline only for children that have been taken by a worker.)
DeadlineOnceTaken(p, x) == p \in Timed /\ runsKv[x] # "PENDING"

Deadline(p, x) == p \in Timed

WaitTimeout(p, x) ==
    /\ call[x] = "wait" /\ Deadline(p, x)
    /\ StopWaiting(p, x, "failed")
    /\ UNCHANGED faultsLeft

ReadRaises(p, x) ==
    /\ call[x] = "wait"
    /\ Charge(FALSE)
    /\ StopWaiting(p, x, "failed")

-----------------------------------------------------------------------------
(* The engine (external): it returns once its tasks have returned *)

Idle(p) == \A x \in Of(p) : call[x] \notin Calling

\* (A cancelled flow that ends in a status of its own.)
OutcomeAborted(p) ==
    IF flow[p] = "cancelling" THEN "ABORTED"
    ELSE IF \E x \in Of(p) : call[x] = "failed" THEN "FAILED" ELSE "COMPLETED"

Outcome(p) ==
    IF flow[p] = "cancelling" THEN "CANCELLED"
    ELSE IF \E x \in Of(p) : call[x] = "failed" THEN "FAILED" ELSE "COMPLETED"

EngineEnd(p) ==
    /\ Executing(p) /\ Idle(p)
    /\ flow' = [flow EXCEPT ![p] = Outcome(p)]
    /\ UNCHANGED <<call, orchestrator, runsKv, reached, relations, job, faultsLeft>>

EngineCancel(p) ==
    /\ flow[p] = "running"
    /\ flow' = [flow EXCEPT ![p] = "cancelling"]
    /\ UNCHANGED <<call, orchestrator, runsKv, reached, relations, job, faultsLeft>>

-----------------------------------------------------------------------------
(* Workers, as far as parents and children depend on them *)

WorkerIsFree ==
    Cardinality({p \in Parents : Executing(p)}) + Cardinality({x \in Children : job[x] \in Taken})
        < Workers

TakeParent(p) ==
    /\ flow[p] = "queued" /\ WorkerIsFree
    /\ flow' = [flow EXCEPT ![p] = "running"]
    /\ UNCHANGED <<call, orchestrator, runsKv, reached, relations, job, faultsLeft>>

TakeChild(x) ==
    /\ job[x] = "ready" /\ WorkerIsFree
    /\ job' = [job EXCEPT ![x] = "out"]
    /\ runsKv' = [runsKv EXCEPT ![x] = "RUNNING"]
    /\ UNCHANGED <<flow, call, orchestrator, reached, relations, faultsLeft>>

FinishChild(x) ==
    /\ job[x] = "out"
    /\ job' = [job EXCEPT ![x] = "settled"]
    /\ runsKv' = [runsKv EXCEPT ![x] = "terminal"]
    /\ reached' = reached \cup {x}
    /\ UNCHANGED <<flow, call, orchestrator, relations, faultsLeft>>

AckChild(x) ==
    /\ job[x] = "settled"
    /\ job' = [job EXCEPT ![x] = "gone"]
    /\ UNCHANGED <<flow, call, orchestrator, runsKv, reached, relations, faultsLeft>>

\* The process dies: its calls stop where they are, ...
ParentCrash(p) ==
    /\ Executing(p)
    /\ Charge(FALSE)
    /\ flow' = [flow EXCEPT ![p] = "dead"]
    /\ call' = [x \in Children |-> IF x \in Of(p) THEN "dead" ELSE call[x]]
    /\ UNCHANGED <<orchestrator, runsKv, reached, relations, job>>

\* ... and a child is delivered again.
ChildCrash(x) ==
    /\ job[x] \in Taken
    /\ Charge(FALSE)
    /\ job' = [job EXCEPT ![x] = "ready"]
    /\ UNCHANGED <<flow, call, orchestrator, runsKv, reached, relations>>

-----------------------------------------------------------------------------
Init ==
    /\ flow = [p \in Parents |-> "queued"]
    /\ call = [x \in Children |-> "idle"]
    /\ orchestrator = [p \in Parents |->
                        [spawn_count |-> 0, active |-> {}, child_run_ids |-> {}]]
    /\ runsKv = [x \in Children |-> "absent"]
    /\ reached = {}
    /\ relations = {}
    /\ job = [x \in Children |-> "none"]
    /\ faultsLeft = MaxFaults

\* What the code does in a call, once the engine has started it.
CallStep(p, x) ==
    \/ PutSnapshot(x) \/ PutRelation(x) \/ PublishJob(x)
    \/ UndoSnapshot(x) \/ UndoRelation(x) \/ Register(p, x)
    \/ ChildEnded(p, x) \/ ParentCancelled(p, x) \/ WaitTimeout(p, x)

ParentStep(p) ==
    \/ \E x \in Of(p) : Refuse(p, x) \/ Spawn(p, x) \/ CallStep(p, x) \/ ReadRaises(p, x)
    \/ EngineEnd(p) \/ EngineCancel(p)

Next ==
    \/ \E p \in Parents : ParentStep(p) \/ TakeParent(p) \/ ParentCrash(p)
    \/ \E x \in Children : TakeChild(x) \/ FinishChild(x) \/ AckChild(x) \/ ChildCrash(x)

Spec == Init /\ [][Next]_vars

\* The threads and the event loop of a process keep going, and so does its
\* engine.  Nothing says that a child ends, or is even taken.
FairSpec ==
    /\ Spec
    /\ \A p \in Parents : WF_vars(EngineEnd(p) \/ \E x \in Of(p) : CallStep(p, x))

-----------------------------------------------------------------------------
(* Properties *)

TypeOK ==
    /\ flow \in [Parents -> {"queued", "running", "cancelling", "dead",
                             "COMPLETED", "FAILED", "CANCELLED"}]
    /\ call \in [Children -> {"idle", "returned", "failed", "dead"} \cup Calling]
    /\ orchestrator \in [Parents -> [spawn_count : Nat, active : SUBSET Children,
                                     child_run_ids : SUBSET Children]]
    /\ runsKv \in [Children -> {"absent", "PENDING", "RUNNING", "terminal"}]
    /\ reached \subseteq Children /\ relations \subseteq Children
    /\ job \in [Children -> {"none", "ready", "out", "settled", "gone"}]
    /\ faultsLeft \in 0..MaxFaults

\* The runs an execution has brought into being, whatever became of the calls.
Spawned(p) == {x \in Of(p) : runsKv[x] # "absent" \/ job[x] # "none"}

\* However its threads interleave and its submissions fail, an execution never
\* brings more than spawn_max_child_runs children into being.
ChildLimit ==
    \A p \in Parents : MaxChildRuns[p] > 0 => Cardinality(Spawned(p)) <= MaxChildRuns[p]

\* The children that count against spawn_max_parallel_child_runs are those the
\* parent waits for: whatever ended a wait, a later spawn is not refused for it.
ActiveIsWaiting ==
    \A p \in Parents : Executing(p) =>
        orchestrator[p].active = {x \in Of(p) : call[x] = "wait"}

\* A parent only waits for a child that can end: its job was published, and
\* neither its snapshot nor its relation record was rolled back.
AwaitedChildIsQueued ==
    \A x \in Children : call[x] \in {"register", "wait"} =>
        job[x] # "none" /\ runsKv[x] # "absent" /\ x \in relations

\* A flow completes only after all the children it spawned have ended, and the
\* run's audit trail lists each of them.
CompletedAfterChildren ==
    \A p \in Parents : flow[p] = "COMPLETED" => \A x \in Of(p) :
        call[x] # "idle" => x \in reached \cap orchestrator[p].child_run_ids

\* At most spawn_max_parallel_child_runs children of an execution are in the
\* queue or with a worker at a time (spec.md, ERR-PYOCO-0027).
ParallelLimit ==
    \A p \in Parents : MaxParallel[p] > 0 =>
        Cardinality({x \in Of(p) : job[x] \in {"ready", "out"}}) <= MaxParallel[p]

\* A spawn call ends although no worker is left for its child: parents that
\* occupy all the workers do not wait for one another for ever.
CallsReturn ==
    \A p \in Timed : \A x \in Of(p) :
        (call[x] \in Calling) ~> (call[x] \notin Calling)

\* A cancelled parent stops, also when it waits for a child without a deadline.
CancelledParentStops ==
    \A p \in Parents : (flow[p] = "cancelling") ~> (flow[p] \in {"CANCELLED", "dead"})

=============================================================================
