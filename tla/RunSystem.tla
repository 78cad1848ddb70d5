----------------------------- MODULE RunSystem ------------------------------
(***************************************************************************)
(* The run life cycle: gateway requests and workers over the shared        *)
(* snapshot bucket and work queue, with failing calls and crashes up to    *)
(* MaxFaults.                                                              *)
(***************************************************************************)
EXTENDS RunGateway, RunWorker

vars == <<runsKv, reached, workStream, faultsLeft, request, delivery>>

TypeOK == StoreTypeOK /\ GatewayTypeOK /\ WorkerTypeOK

Init == StoreInit /\ GatewayInit /\ WorkerInit

Next == \/ GatewayNext /\ UNCHANGED delivery
        \/ WorkerNext /\ UNCHANGED request

Spec == Init /\ [][Next]_vars

-----------------------------------------------------------------------------
(* Fairness: the processes are event loops that keep running their tasks,   *)
(* the server keeps delivering and keeps its timers.  Nothing is assumed   *)
(* of which calls fail, nor of how a flow ends: that is up to its tasks,    *)
(* also once Engine.cancel was called, which only asks them to.  So there  *)
(* are two specifications, one where tasks end and one where they need not; *)
(* there, a property that depends on them states it as its premise.        *)

Fairness ==
    /\ \A q \in Requests : WF_vars(RequestStep(q) /\ UNCHANGED delivery)
    /\ \A d \in Slots :
        /\ WF_vars(HandlerStep(d) /\ UNCHANGED request)
        /\ WF_vars(EngineStart(d) /\ UNCHANGED request)
        /\ WF_vars(HeartbeatRead(d) /\ UNCHANGED request)
        /\ WF_vars(HeartbeatPut(d) /\ UNCHANGED request)
        /\ WF_vars(Flush(d) /\ UNCHANGED request)
    /\ WF_vars((\E d \in Slots, w \in Workers, m \in Msgs : Fetch(d, w, m)) /\ UNCHANGED request)
    /\ \A m \in Msgs : WF_vars(AckWaitExpires(m) /\ UNCHANGED request)

TasksEnd == \A d \in Slots :
    WF_vars((EngineComplete(d) \/ EngineFail(d) \/ EngineCancelled(d)) /\ UNCHANGED request)

\* Tasks may be endless, but a flow that was told to cancel stops between two of
\* its tasks.
TasksHeedCancel == \A d \in Slots : WF_vars(EngineCancelled(d) /\ UNCHANGED request)

FairSpec == Spec /\ Fairness /\ TasksEnd
EndlessTasksSpec == Spec /\ Fairness

-----------------------------------------------------------------------------
(* Safety *)

\* A request that was accepted and puts a job in the queue.
Enqueues(q) == ReqKind[q] \in {"submit", "bundle", "client", "approve"}

\* POST /runs answers 200 only once the job is queued, and a worker acks only
\* after a terminal snapshot is stored: whatever fails in between, an accepted
\* run still has a message in the stream or has reached a terminal snapshot.
NoAcceptedRunLost ==
    \A q \in Requests :
        Enqueues(q) /\ request[q].answer = "accepted" =>
            \E m \in Msgs :
                /\ workStream[m].run = ReqRun[q]
                /\ \/ workStream[m].state \in {"ready", "out"}
                   \/ workStream[m].state = "gone" /\ ReqRun[q] \in reached

\* Whether someone asked to stop run r, and was not turned down: a cancel or a
\* reject that read a run it could still stop.
StopRequested(r) ==
    \E q \in Requests :
        /\ ReqRun[q] = r
        /\ ReqKind[q] \in {"cancel", "reject"}
        /\ request[q].pc = "done" /\ request[q].answer # "refused"
        /\ request[q].seen.status \notin Terminal \cup {"absent"}

\* A run is shown as CANCELLING or CANCELLED, or is stopped by a worker, only
\* if someone asked for it: retries, redeliveries, rollbacks and stale
\* snapshots never invent a cancellation.
CancelOnlyIfAsked ==
    /\ \A r \in Runs :
        runsKv[r].cancel \/ runsKv[r].status \in {"CANCELLING", "CANCELLED"} => StopRequested(r)
    /\ \A d \in Slots :
        delivery[d].cancel \/ delivery[d].status \in {"CANCELLING", "CANCELLED"}
            => StopRequested(delivery[d].run)

\* Whether r was submitted as a bundle whose entry workflow can spawn.
NeedsApproval(r) == \E q \in Requests : ReqRun[q] = r /\ ReqKind[q] = "spawnBundle"

\* A run that needs approval reaches the queue only through an approve call
\* that found it waiting for approval, however requests race and fail.
ApprovalGate ==
    \A m \in Msgs :
        workStream[m].run # NoRun /\ NeedsApproval(workStream[m].run) =>
            \E q \in Requests :
                /\ ReqRun[q] = workStream[m].run
                /\ ReqKind[q] = "approve"
                /\ request[q].seen.status = "PENDING_APPROVAL"

\* Faults that have happened so far.
Spent == MaxFaults - faultsLeft

\* A message never waits for more deliveries than failures have paid for: each
\* redelivery (a nak, or an ack wait that ran out) takes a call that failed or
\* a process that died since the last one, so the deliveries of a job run out
\* (consumer_max_deliver) only after as many faults.
RetriesNeedFaults ==
    \A m \in Msgs : workStream[m].state = "ready" => workStream[m].tries <= Spent

\* Somebody is still to bring run r to an end: a worker will get or has its job,
\* or a request is about to queue it.
Tended(r) ==
    \/ \E m \in Msgs : workStream[m].run = r /\ workStream[m].state = "ready"
    \/ \E d \in Slots : /\ delivery[d].run = r
                        /\ delivery[d].pc \in {"fetched", "resolve", "start", "engine", "final"}
    \/ \E q \in Requests : /\ ReqRun[q] = r /\ Enqueues(q)
                           /\ request[q].pc \in {"relate", "publish"}

\* While nothing has failed, no run is shown as going on with nobody left to end
\* it: a request lets go of a run only once its job is queued, a worker only
\* once a terminal snapshot is stored, and no task puts an older status back.
\* Only a cancel that had read the run before its end leaves CANCELLING behind,
\* with no worker to act on it.
HangingNeedsFaults ==
    faultsLeft = MaxFaults =>
        \A r \in Runs :
            /\ runsKv[r].status \in {"PENDING", "RUNNING"} => Tended(r)
            /\ runsKv[r].status = "CANCELLING" => Tended(r) \/ r \in reached

-----------------------------------------------------------------------------
(* Action properties *)

\* Two decisions read run r while it waited for approval, and each of them may
\* write its own outcome: an approve after a reject revives a cancelled run,
\* and two approves queue two jobs.
RacedDecisions(r) ==
    \E p, q \in Requests :
        /\ p # q /\ ReqRun[p] = r /\ ReqRun[q] = r
        /\ request[p].seen.status = "PENDING_APPROVAL"
        /\ request[q].seen.status = "PENDING_APPROVAL"

\* The status of a run leaves a terminal one (spec.md, appendix B: a terminal
\* state is one that is not expected to be updated any more) only by the blind
\* put of a cancel that had read the run before it ended: while nothing has
\* failed, and unless decisions raced on the run, none of the four writers a
\* worker has for a run comes after the last one, and no other request does.
TerminalIsFinal ==
    [][\A r \in Runs :
        /\ faultsLeft = MaxFaults
        /\ ~RacedDecisions(r)
        /\ runsKv[r].status \in Terminal
        /\ runsKv'[r].status # runsKv[r].status
        => \E q \in Requests :
                ReqKind[q] = "cancel" /\ ReqRun[q] = r /\ request'[q] # request[q]]_vars

\* A heartbeat refreshes heartbeat_at and leaves the meaning of the status
\* alone (spec.md, appendix F): it takes back neither a recorded cancel nor the
\* end of a run.
HeartbeatKeepsStatus ==
    [][\A d \in Slots :
        delivery[d].heartbeat = "read" /\ delivery'[d].heartbeat = "idle" =>
            LET before == runsKv[delivery[d].run]
                after == runsKv'[delivery[d].run]
            IN  /\ CancelRequested(before) => CancelRequested(after)
                /\ before.status \in Terminal => after.status \in Terminal]_vars

-----------------------------------------------------------------------------
(* What clients are promised: RunContract, with the queue, the requests and *)
(* the snapshots seen from outside.                                        *)

Jobs ==
    LET has(r, states) ==
            \E m \in Msgs : workStream[m].run = r /\ workStream[m].state \in states
    IN  [r \in Runs |-> IF has(r, {"ready", "out"}) THEN "queued"
                        ELSE IF has(r, {"gone"}) THEN "taken" ELSE "none"]

Shown == [r \in Runs |-> runsKv[r].status]

Accepted ==
    {ReqRun[q] : q \in {p \in Requests : Enqueues(p) /\ request[p].answer = "accepted"}}

Approvable ==
    {ReqRun[q] : q \in {p \in Requests :
        ReqKind[p] = "approve" /\ request[p].seen.status = "PENDING_APPROVAL"}}

StopAsked == {r \in Runs : StopRequested(r)}

Contract == INSTANCE RunContract WITH
    NeedApproval <- {r \in Runs : NeedsApproval(r)},
    job <- Jobs, shown <- Shown, ended <- reached,
    accepted <- Accepted, approved <- Approvable, stopAsked <- StopAsked

\* The gateway, the workers and the server together keep the contract, whatever
\* requests race, calls fail and processes die.
KeepsContract == Contract!Spec

-----------------------------------------------------------------------------
(* Liveness *)

\* Every accepted run reaches a terminal snapshot, through crashes, failed
\* calls and lost acks, as long as MaxDeliver exceeds the faults.
AcceptedRunsFinish ==
    \A q \in Requests :
        (Enqueues(q) /\ request[q].answer = "accepted") ~> (ReqRun[q] \in reached)

\* The queue empties if tasks end: no message, decodable or not, is redelivered
\* for ever or left in the stream.
QueueDrains == TasksEnd => <>[](\A m \in Msgs : workStream[m].state \in {"unused", "gone"})

\* Once the worker knows of a cancel request the running flow is told, although
\* a request found before the engine started comes too early for Engine.cancel,
\* and, if the flow's tasks heed that, its job is brought to an end.  (The cancel
\* of a flow that does not heed it never converges: ERR-PYOCO-0021.)
KnownCancelStopsFlow ==
    /\ \A d \in Slots :
        (delivery[d].cancel /\ delivery[d].pc \in {"start", "engine"})
            ~> (delivery[d].pc \notin {"start", "engine"} \/ delivery[d].status = "CANCELLING")
    /\ TasksHeedCancel => \A d \in Slots :
        (delivery[d].cancel /\ delivery[d].pc \in {"start", "engine"})
            ~> (delivery[d].pc \in {"done", "dead"})

=============================================================================
