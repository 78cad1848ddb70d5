----------------------------- MODULE RunWorker ------------------------------
(***************************************************************************)
(* PyocoNatsWorker: run_once fetches one message, executes its job and     *)
(* acknowledges it, while up to three more tasks of the same job run on    *)
(* the event loop: the run heartbeat, the trace backend's flush runner and *)
(* the in-progress loop.  The first two write the run's snapshot too, and  *)
(* can outlive the handler that started them.                              *)
(*                                                                         *)
(* A slot holds one delivery: the handler's position and its run context.  *)
(* The pyoco Engine is external: it starts (on_flow_start), reports node   *)
(* events, and ends by completing, by failing, or, once Engine.cancel was  *)
(* called on a running flow, by cancelling.                                *)
(***************************************************************************)
EXTENDS RunStore

CONSTANTS
    Workers,        \* worker processes
    MaxDeliveries   \* bound: deliveries made in a behaviour

ASSUME WorkerAssumption == MaxDeliveries \in Nat

VARIABLE delivery   \* slot -> delivery

Slots == 1..MaxDeliveries

\* Where run_once stands.  "settled" has returned from _execute_job; "failed"
\* is the NatsError branch, "crashed" the other one, "closing" its ack; "done"
\* is a handler that returned, "dead" one whose process died.
Handling == {"fetched", "resolve", "start", "engine", "final", "settled",
             "failed", "crashed", "closing"}

DeliveryRecord ==
    [pc : {"free", "done", "dead"} \cup Handling,
     worker : Workers,
     msg : 0..MaxMsgs,
     run : Runs \cup {NoRun},
     status : Statuses,             \* run_ctx.status
     cancel : BOOLEAN,              \* cancel_state.requested
     approval : Approvals,          \* metadata copied from the read snapshot
     heartbeat : {"off", "idle", "read", "NatsError", "Exception"},
     flush : {"idle", "scheduled", "dirty", "stale"},
     progress : BOOLEAN]            \* the in-progress loop is alive

WorkerTypeOK == delivery \in [Slots -> DeliveryRecord]

FreeSlot(w) == [pc |-> "free", worker |-> w, msg |-> 0, run |-> NoRun,
                status |-> "PENDING", cancel |-> FALSE, approval |-> "none",
                heartbeat |-> "off", flush |-> "idle", progress |-> FALSE]

WorkerInit == \E w \in Workers : delivery = [d \in Slots |-> FreeSlot(w)]

\* run_once handles one message at a time; leftovers of earlier deliveries are
\* heartbeats and flush runners that outlived their handler.
Busy(w) == \E d \in Slots : delivery[d].worker = w /\ delivery[d].pc \in Handling
Flushing(d) == delivery[d].flush \in {"scheduled", "dirty"}
Leftover(d) == delivery[d].heartbeat \in {"idle", "read"} \/ Flushing(d)

\* The one delivery a step of a handler, engine or background task changes.
Becomes(d, rec) == delivery' = [delivery EXCEPT ![d] = rec]

\* RunContext's initial status: before on_flow_start it is not RUNNING.
FreshStatus == "PENDING"

-----------------------------------------------------------------------------
(* Snapshots written from a run context *)

\* run_snapshot_from_context: what the trace backend and the end of
\* _execute_job write.
ContextSnapshot(d) == Snap(delivery[d].status, delivery[d].cancel, delivery[d].approval)

\* (A live snapshot that says RUNNING whatever the context says.)
LiveSnapshotRunning(d) == Snap("RUNNING", delivery[d].cancel, delivery[d].approval)

\* The heartbeat and the ownership write show a cancel request as CANCELLING.
LiveSnapshot(d) ==
    IF delivery[d].cancel /\ delivery[d].status \notin Terminal
    THEN Snap("CANCELLING", TRUE, delivery[d].approval)
    ELSE ContextSnapshot(d)

\* (A fallback with a status outside the status model.)
FallbackSnapshotUntyped == Snap("ERROR", FALSE, "none")

\* The minimal snapshot of run_once's last except clause, without metadata.
FallbackSnapshot == Snap("FAILED", FALSE, "none")

\* NatsKvTraceBackend._mark_dirty: "stale" is a runner that failed with its
\* dirty flag still set.
MarkedDirty(flush) == IF flush = "idle" THEN "scheduled" ELSE "dirty"

\* Which branch of run_once an exception out of _execute_job lands in.
ErrorBranch(err) == IF err = "NatsError" THEN "failed" ELSE "crashed"

-----------------------------------------------------------------------------
(* run_once: fetch, decode, and the three ways to dispose of the message *)

\* (A delivery without an in-progress loop.)
FetchedUnattended(w, m) ==
    [FreeSlot(w) EXCEPT !.pc = "fetched", !.msg = m, !.run = workStream[m].run]

\* The context of a fetched message; the in-progress loop starts with it (one
\* that does not decode has none, but is termed within the ack wait unless the
\* worker stalls, which LoseProgress stands for).
Fetched(w, m) ==
    [FreeSlot(w) EXCEPT !.pc = "fetched", !.msg = m, !.run = workStream[m].run,
                        !.progress = TRUE]

Fetch(d, w, m) ==
    /\ delivery[d].pc = "free"
    /\ \A e \in Slots : delivery[e].pc = "free" => d <= e
    /\ ~Busy(w)
    /\ Deliverable(m)
    /\ workStream' = [workStream EXCEPT ![m].state = "out", ![m].tries = @ + 1]
    /\ Becomes(d, Fetched(w, m))
    /\ UNCHANGED <<runsKv, reached, faultsLeft>>

\* (The in-progress loop goes on when the handler has returned.)
ReturnedReporting(rec) == [rec EXCEPT !.pc = "done"]

\* The handler returns: the in-progress loop is cancelled in its finally.
Returned(rec) == [rec EXCEPT !.pc = "done", !.progress = FALSE]

\* (A job that does not decode handed back for another try.)
RetryInvalid(d) ==
    /\ delivery[d].pc = "fetched"
    /\ delivery[d].run = NoRun
    /\ workStream' = [workStream EXCEPT ![delivery[d].msg].state = "ready"]
    /\ Becomes(d, Returned(delivery[d]))
    /\ UNCHANGED <<runsKv, reached, faultsLeft>>

\* A job that does not decode is dead-lettered and termed; a term that raises
\* leaves run_once with the message outstanding.
DiscardInvalid(d) ==
    /\ delivery[d].pc = "fetched"
    /\ delivery[d].run = NoRun
    /\ \E applied \in BOOLEAN, err \in Errors :
        Remote(applied, err) /\ RemoveMsg(delivery[d].msg, applied)
    /\ Becomes(d, Returned(delivery[d]))
    /\ UNCHANGED <<runsKv, reached>>

\* msg.ack() has no reply: it can be lost without an exception.
Ack(d) ==
    /\ delivery[d].pc \in {"settled", "closing"}
    /\ \/ \E applied \in BOOLEAN, err \in Errors :
            /\ Remote(applied, err) /\ RemoveMsg(delivery[d].msg, applied)
            /\ Becomes(d, IF err # "none" /\ delivery[d].pc = "settled"
                          THEN [delivery[d] EXCEPT !.pc = ErrorBranch(err)]
                          ELSE Returned(delivery[d]))
       \/ /\ faultsLeft > 0
          /\ faultsLeft' = faultsLeft - 1
          /\ Becomes(d, Returned(delivery[d]))
          /\ UNCHANGED workStream
    /\ UNCHANGED <<runsKv, reached>>

\* Best-effort nak after a nats error: redelivered after the delay, or, when
\* the nak is lost, when the ack wait runs out.
Nak(d) ==
    /\ delivery[d].pc = "failed"
    /\ \E applied \in BOOLEAN, err \in Errors :
        /\ Remote(applied, err)
        /\ workStream' =
            IF applied /\ workStream[delivery[d].msg].state = "out"
            THEN [workStream EXCEPT ![delivery[d].msg].state = "ready"]
            ELSE workStream
    /\ Becomes(d, Returned(delivery[d]))
    /\ UNCHANGED <<runsKv, reached>>

\* (An ack although the failure could not be recorded.)
AckUnrecorded(d) ==
    /\ delivery[d].pc = "crashed"
    /\ \E applied \in BOOLEAN, err \in Errors :
        /\ Remote(applied, err)
        /\ PutRun(delivery[d].run, FallbackSnapshot, applied)
        /\ Becomes(d, [delivery[d] EXCEPT !.pc = "closing"])
    /\ UNCHANGED workStream

\* Any other exception: record the run as FAILED, then ack; nak when even
\* that write fails.
RecordFailure(d) ==
    /\ delivery[d].pc = "crashed"
    /\ \E applied \in BOOLEAN, err \in Errors :
        /\ Remote(applied, err)
        /\ PutRun(delivery[d].run, FallbackSnapshot, applied)
        /\ Becomes(d, [delivery[d] EXCEPT !.pc = IF err = "none" THEN "closing" ELSE "failed"])
    /\ UNCHANGED workStream

-----------------------------------------------------------------------------
(* _execute_job *)

\* Read the current snapshot (a failed read counts as none) for the metadata
\* to carry over and a cancel request made before the start.
ReadSnapshot(d) ==
    /\ delivery[d].pc = "fetched"
    /\ delivery[d].run # NoRun
    /\ \E err \in Errors :
        LET snap == IF err = "none" THEN runsKv[delivery[d].run] ELSE Absent IN
        /\ Remote(TRUE, err)
        /\ Becomes(d, [delivery[d] EXCEPT !.pc = "resolve", !.status = FreshStatus,
                            !.cancel = CancelRequested(snap), !.approval = snap.approval])
    /\ UNCHANGED <<runsKv, reached, workStream>>

\* The flow is unknown or invalid: a FAILED snapshot, which does not carry
\* the cancel request, and no execution.
FailResolve(d) ==
    /\ delivery[d].pc = "resolve"
    /\ \E applied \in BOOLEAN, err \in Errors :
        /\ Remote(applied, err)
        /\ PutRun(delivery[d].run, Snap("FAILED", FALSE, delivery[d].approval), applied)
        /\ Becomes(d, [delivery[d] EXCEPT !.pc =
                            IF err = "none" THEN "settled" ELSE ErrorBranch(err)])
    /\ UNCHANGED workStream

\* The heartbeat task is created, then the ownership snapshot is put outside
\* any try: when the put raises, the heartbeat keeps running.
TakeOwnership(d) ==
    /\ delivery[d].pc = "resolve"
    /\ \E applied \in BOOLEAN, err \in Errors :
        /\ Remote(applied, err)
        /\ PutRun(delivery[d].run, LiveSnapshot(d), applied)
        /\ Becomes(d, [delivery[d] EXCEPT !.heartbeat = "idle",
                            !.pc = IF err = "none" THEN "start" ELSE ErrorBranch(err)])
    /\ UNCHANGED workStream

\* (The final snapshot left to the flush runner.)
FinalizeUnwritten(d) ==
    /\ delivery[d].pc = "final"
    /\ delivery[d].heartbeat \in {"idle", "read"}
    /\ Becomes(d, [delivery[d] EXCEPT !.heartbeat = "off", !.pc = "settled"])
    /\ UNCHANGED storeVars

\* The end of _execute_job: stop the heartbeat, then put the final snapshot.
\* A heartbeat that died of a failed put raises here instead, before the put.
Finalize(d) ==
    /\ delivery[d].pc = "final"
    /\ \/ /\ delivery[d].heartbeat \in {"NatsError", "Exception"}
          /\ Becomes(d, [delivery[d] EXCEPT !.heartbeat = "off",
                                             !.pc = ErrorBranch(delivery[d].heartbeat)])
          /\ UNCHANGED <<runsKv, reached, faultsLeft>>
       \/ /\ delivery[d].heartbeat \in {"idle", "read"}
          /\ \E applied \in BOOLEAN, err \in Errors :
                /\ Remote(applied, err)
                /\ PutRun(delivery[d].run, ContextSnapshot(d), applied)
                /\ Becomes(d, [delivery[d] EXCEPT !.heartbeat = "off",
                                    !.pc = IF err = "none" THEN "settled" ELSE ErrorBranch(err)])
    /\ UNCHANGED workStream

-----------------------------------------------------------------------------
(* The engine's thread and the trace callbacks it makes *)

EngineStart(d) ==
    /\ delivery[d].pc = "start"
    /\ Becomes(d, [delivery[d] EXCEPT !.pc = "engine", !.status = "RUNNING",
                                       !.flush = MarkedDirty(@)])
    /\ UNCHANGED storeVars

EngineEvent(d) ==
    /\ delivery[d].pc = "engine"
    /\ Becomes(d, [delivery[d] EXCEPT !.flush = MarkedDirty(@)])
    /\ UNCHANGED storeVars

\* How the engine can end, given the status it ends in.
EngineEnd(d, status) ==
    /\ delivery[d].pc = "engine"
    /\ Becomes(d, [delivery[d] EXCEPT !.pc = "final", !.status = status,
                                       !.flush = MarkedDirty(@)])
    /\ UNCHANGED storeVars

EngineComplete(d) == delivery[d].status = "RUNNING" /\ EngineEnd(d, "COMPLETED")
EngineCancelled(d) == delivery[d].status = "CANCELLING" /\ EngineEnd(d, "CANCELLED")
EngineFail(d) == EngineEnd(d, "FAILED")

-----------------------------------------------------------------------------
(* The tasks beside the handler.  A leaked heartbeat and a late flush run   *)
(* on after "done"; all of them die with the process.                       *)

\* (Engine.cancel called only by the beat that first sees the request.)
StatusAfterFirstBeat(d, cancel) ==
    IF cancel /\ ~delivery[d].cancel /\ delivery[d].pc = "engine"
        /\ delivery[d].status = "RUNNING"
    THEN "CANCELLING" ELSE delivery[d].status

\* One beat reads the stored snapshot, remembers a cancel request, and while
\* one is known calls Engine.cancel, which acts on a running flow only ...
StatusAfterBeat(d, cancel) ==
    IF cancel /\ delivery[d].pc = "engine" /\ delivery[d].status = "RUNNING"
    THEN "CANCELLING" ELSE delivery[d].status

HeartbeatRead(d) ==
    /\ delivery[d].heartbeat = "idle"
    /\ \E err \in Errors :
        LET seen == err = "none" /\ CancelRequested(runsKv[delivery[d].run])
            cancel == delivery[d].cancel \/ seen
        IN
        /\ Remote(TRUE, err)
        /\ Becomes(d, [delivery[d] EXCEPT !.heartbeat = "read", !.cancel = cancel,
                                           !.status = StatusAfterBeat(d, cancel)])
    /\ UNCHANGED <<runsKv, reached, workStream>>

\* ... and then writes the whole snapshot, whatever the gateway wrote since.
HeartbeatPut(d) ==
    /\ delivery[d].heartbeat = "read"
    /\ \E applied \in BOOLEAN, err \in Errors :
        /\ Remote(applied, err)
        /\ PutRun(delivery[d].run, LiveSnapshot(d), applied)
        /\ Becomes(d, [delivery[d] EXCEPT !.heartbeat = IF err = "none" THEN "idle" ELSE err])
    /\ UNCHANGED workStream

\* _flush_runner: one coalesced put, another if the context changed meanwhile;
\* a put that raises ends the runner and leaves the dirty flag as it is.
Flush(d) ==
    /\ Flushing(d)
    /\ \E applied \in BOOLEAN, err \in Errors :
        /\ Remote(applied, err)
        /\ PutRun(delivery[d].run, ContextSnapshot(d), applied)
        /\ Becomes(d, [delivery[d] EXCEPT !.flush =
                            IF @ = "scheduled" THEN "idle"
                            ELSE IF err = "none" THEN "scheduled" ELSE "stale"])
    /\ UNCHANGED workStream

\* in_progress raised, or the loop was starved past the ack wait: it ends.
LoseProgress(d) ==
    /\ delivery[d].progress
    /\ faultsLeft > 0
    /\ faultsLeft' = faultsLeft - 1
    /\ Becomes(d, [delivery[d] EXCEPT !.progress = FALSE])
    /\ UNCHANGED <<runsKv, reached, workStream>>

\* The process dies; its supervisor may start it again.
WorkerCrash(w) ==
    /\ Busy(w) \/ \E d \in Slots : delivery[d].worker = w /\ Leftover(d)
    /\ faultsLeft > 0
    /\ faultsLeft' = faultsLeft - 1
    /\ delivery' = [d \in Slots |->
            IF delivery[d].worker # w \/ delivery[d].pc = "free" THEN delivery[d]
            ELSE [delivery[d] EXCEPT !.pc = "dead", !.heartbeat = "off",
                                     !.flush = "idle", !.progress = FALSE]]
    /\ UNCHANGED <<runsKv, reached, workStream>>

\* The server's ack wait runs out on a message nobody reports progress on.
AckWaitExpires(m) ==
    /\ workStream[m].state = "out"
    /\ \A d \in Slots : delivery[d].msg = m => ~delivery[d].progress
    /\ workStream' = [workStream EXCEPT ![m].state = "ready"]
    /\ UNCHANGED <<runsKv, reached, faultsLeft, delivery>>

-----------------------------------------------------------------------------
HandlerStep(d) ==
    \/ DiscardInvalid(d) \/ Ack(d) \/ Nak(d) \/ RecordFailure(d)
    \/ ReadSnapshot(d) \/ FailResolve(d) \/ TakeOwnership(d) \/ Finalize(d)

BackgroundStep(d) == HeartbeatRead(d) \/ HeartbeatPut(d) \/ Flush(d)

EngineStep(d) == EngineStart(d) \/ EngineComplete(d) \/ EngineCancelled(d) \/ EngineFail(d)

WorkerNext ==
    \/ \E d \in Slots, w \in Workers, m \in Msgs : Fetch(d, w, m)
    \/ \E d \in Slots : HandlerStep(d) \/ BackgroundStep(d) \/ EngineStep(d)
                        \/ EngineEvent(d) \/ LoseProgress(d)
    \/ \E w \in Workers : WorkerCrash(w)
    \/ \E m \in Msgs : AckWaitExpires(m)

=============================================================================
