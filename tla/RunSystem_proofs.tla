-------------------------- MODULE RunSystem_proofs --------------------------
(***************************************************************************)
(* Theorems about RunSystem, for every number of runs, requests, workers,  *)
(* messages, deliveries and faults: types, and that no accepted run is     *)
(* lost.  RunDecisions_proofs and RunContract_proofs build on them.        *)
(***************************************************************************)
EXTENDS RunSystem, FiniteSetTheorems, TLAPS

USE StoreAssumption, GatewayAssumption, WorkerAssumption

-----------------------------------------------------------------------------
(* Lemmas about the shared operations *)

\* A remote call leaves a number of faults that is still in range.
LEMMA RemoteTyped ==
    ASSUME NEW applied \in BOOLEAN, NEW err \in Errors, faultsLeft \in 0..MaxFaults,
           Remote(applied, err)
    PROVE  faultsLeft' \in 0..MaxFaults /\ (err = "none" => applied)
BY DEF Remote

\* A put of a well-formed snapshot keeps the bucket and `reached` well formed.
LEMMA PutTyped ==
    ASSUME NEW r \in Runs, NEW snap \in Snapshot, NEW applied \in BOOLEAN,
           runsKv \in [Runs -> Snapshot], reached \subseteq Runs,
           PutRun(r, snap, applied)
    PROVE  runsKv' \in [Runs -> Snapshot] /\ reached' \subseteq Runs
BY DEF PutRun

\* A publish keeps the stream well formed.
LEMMA PublishTyped ==
    ASSUME NEW r \in Runs, NEW applied \in BOOLEAN,
           workStream \in [Msgs -> Message],
           PublishRun(r, applied)
    PROVE  workStream' \in [Msgs -> Message]
BY DEF PublishRun, Message

\* Snapshots built from well-formed parts are well formed.
LEMMA SnapTyped ==
    ASSUME NEW s \in Statuses, NEW c \in BOOLEAN, NEW a \in Approvals
    PROVE  Snap(s, c, a) \in Snapshot
BY DEF Snap, Snapshot

LEMMA AbsentTyped == Absent \in Snapshot
BY DEF Absent, Snap, Snapshot, Approvals

-----------------------------------------------------------------------------
(* Type correctness *)

\* A delivery that can write a snapshot is about a run, never about a message
\* that did not decode; a handler in progress holds a message of the stream.
WellFormed(rec) ==
    /\ rec \in DeliveryRecord
    /\ \/ rec.pc \in Handling \ {"fetched"}
       \/ rec.heartbeat # "off"
       \/ rec.flush # "idle"
       => rec.run \in Runs
    /\ rec.pc \in Handling => rec.msg \in Msgs

Typed == TypeOK /\ \A d \in Slots : WellFormed(delivery[d])

LEMMA InitTyped == Init => Typed
<1> SUFFICES ASSUME Init PROVE Typed
  OBVIOUS
<1>1. StoreTypeOK
  BY AbsentTyped DEF Init, StoreInit, StoreTypeOK, Message, Msgs
<1>2. GatewayTypeOK
  BY AbsentTyped DEF Init, GatewayInit, GatewayTypeOK, RequestRecord
<1>3. WorkerTypeOK /\ \A d \in Slots : WellFormed(delivery[d])
  BY DEF Init, WorkerInit, WorkerTypeOK, WellFormed, FreeSlot, DeliveryRecord,
         Handling, Statuses, Approvals, Slots
<1>4. QED
  BY <1>1, <1>2, <1>3 DEF Typed, TypeOK

\* What a request writes is a well-formed snapshot.
LEMMA InitialTyped ==
    ASSUME NEW kind \in SubmitKinds
    PROVE  InitialSnapshot(kind) \in Snapshot
<1>1. /\ Snap("PENDING_APPROVAL", FALSE, "pending") \in Snapshot
      /\ Snap("PENDING", FALSE, "none") \in Snapshot
  BY DEF Snap, Snapshot, Statuses, Approvals
<1>2. CASE kind = "spawnBundle"
  BY <1>1, <1>2 DEF InitialSnapshot
<1>3. CASE kind \in {"submit", "bundle", "client"}
  BY <1>1, <1>3 DEF InitialSnapshot
<1>4. QED
  BY <1>2, <1>3 DEF SubmitKinds

LEMMA DecidedTyped ==
    ASSUME NEW kind \in {"approve", "reject", "cancel"}, NEW seen \in Snapshot
    PROVE  Decided(kind, seen) \in Snapshot
<1>1. seen.cancel \in BOOLEAN /\ seen.approval \in Approvals
  BY DEF Snapshot
<1>2. /\ Snap("PENDING", seen.cancel, "approved") \in Snapshot
      /\ Snap("CANCELLED", seen.cancel, "rejected") \in Snapshot
      /\ Snap("CANCELLED", seen.cancel, seen.approval) \in Snapshot
      /\ Snap("CANCELLING", TRUE, seen.approval) \in Snapshot
  BY <1>1, SnapTyped DEF Statuses, Approvals, Terminal
<1>3. CASE kind = "approve"
  BY <1>2, <1>3 DEF Decided
<1>4. CASE kind = "reject"
  BY <1>2, <1>4 DEF Decided
<1>5. CASE kind = "cancel" /\ seen.status = "PENDING_APPROVAL"
  BY <1>2, <1>5 DEF Decided
<1>6. CASE kind = "cancel" /\ seen.status # "PENDING_APPROVAL"
  BY <1>2, <1>6 DEF Decided
<1>7. QED
  BY <1>3, <1>4, <1>5, <1>6

\* Moving a request on, or ending it, keeps the requests well formed.
LEMMA RequestTyped ==
    ASSUME GatewayTypeOK, NEW q \in Requests,
           \/ \E pc \in {"relate", "publish", "undo"} : Goto(q, pc)
           \/ \E answer \in {"accepted", "refused", "failed"} : Answer(q, answer)
    PROVE  GatewayTypeOK'
<1>1. request \in [Requests -> RequestRecord]
  BY DEF GatewayTypeOK
<1>2. ASSUME NEW pc \in {"relate", "publish", "undo"}, Goto(q, pc)
      PROVE  GatewayTypeOK'
  BY <1>1, <1>2 DEF GatewayTypeOK, RequestRecord, Goto
<1>3. ASSUME NEW answer \in {"accepted", "refused", "failed"}, Answer(q, answer)
      PROVE  GatewayTypeOK'
  BY <1>1, <1>3 DEF GatewayTypeOK, RequestRecord, Answer
<1>4. QED
  BY <1>2, <1>3

\* Every step of the gateway keeps the types.
LEMMA GatewayTyped ==
    ASSUME Typed, GatewayNext, UNCHANGED delivery
    PROVE  Typed'
<1> USE DEF Typed, TypeOK, StoreTypeOK
<1>1. (WorkerTypeOK /\ \A d \in Slots : WellFormed(delivery[d]))'
  BY DEF WorkerTypeOK
<1>2. SUFFICES ASSUME NEW q \in Requests, RequestStep(q) \/ GatewayCrash(q)
               PROVE  StoreTypeOK' /\ GatewayTypeOK'
  BY <1>1 DEF GatewayNext
<1>3. request[q] \in RequestRecord /\ ReqRun[q] \in Runs /\ request[q].seen \in Snapshot
  BY DEF RequestRecord, GatewayTypeOK
<1>4. CASE SubmitPut(q)
  <2>1. PICK applied \in BOOLEAN, err \in Errors :
            /\ Remote(applied, err)
            /\ PutRun(ReqRun[q], InitialSnapshot(ReqKind[q]), applied)
            /\ Goto(q, "relate") \/ Goto(q, "publish") \/ Goto(q, "undo") \/ Answer(q, "failed")
    BY <1>4 DEF SubmitPut
  <2>2. InitialSnapshot(ReqKind[q]) \in Snapshot
    BY <1>4, InitialTyped DEF SubmitPut, At
  <2>3. QED
    BY <1>3, <1>4, <2>1, <2>2, RemoteTyped, PutTyped, RequestTyped DEF SubmitPut
<1>5. CASE RelatePut(q)
  BY <1>5, RemoteTyped, RequestTyped DEF RelatePut
<1>6. CASE PublishJob(q)
  BY <1>3, <1>6, RemoteTyped, PublishTyped, RequestTyped DEF PublishJob
<1>7. CASE Undo(q)
  BY <1>3, <1>7, RemoteTyped, PutTyped, AbsentTyped, RequestTyped DEF Undo
<1>8. CASE ReadRun(q)
  <2>1. PICK err \in Errors : Remote(TRUE, err)
    BY <1>8 DEF ReadRun
  <2>2. GatewayTypeOK'
    BY <1>3, <1>8 DEF ReadRun, Answer, RequestRecord, GatewayTypeOK
  <2>3. QED
    BY <1>8, <2>1, <2>2, RemoteTyped DEF ReadRun
<1>9. CASE DecisionPut(q)
  <2>1. PICK applied \in BOOLEAN, err \in Errors :
            /\ Remote(applied, err)
            /\ PutRun(ReqRun[q], Decided(ReqKind[q], request[q].seen), applied)
            /\ \/ Goto(q, "publish") \/ Goto(q, "undo")
               \/ Answer(q, "accepted") \/ Answer(q, "failed")
    BY <1>9 DEF DecisionPut
  <2>2. Decided(ReqKind[q], request[q].seen) \in Snapshot
    BY <1>3, <1>9, DecidedTyped DEF DecisionPut, At
  <2>3. QED
    BY <1>3, <1>9, <2>1, <2>2, RemoteTyped, PutTyped, RequestTyped DEF DecisionPut
<1>10. CASE GatewayCrash(q)
  BY <1>10, RequestTyped DEF GatewayCrash
<1>11. QED
  BY <1>2, <1>4, <1>5, <1>6, <1>7, <1>8, <1>9, <1>10 DEF RequestStep

\* What a delivery writes is a well-formed snapshot.
LEMMA WrittenTyped ==
    ASSUME NEW d \in Slots, delivery[d] \in DeliveryRecord
    PROVE  /\ ContextSnapshot(d) \in Snapshot
           /\ LiveSnapshot(d) \in Snapshot
           /\ FallbackSnapshot \in Snapshot
           /\ Snap("FAILED", FALSE, delivery[d].approval) \in Snapshot
<1>1. delivery[d].status \in Statuses /\ delivery[d].cancel \in BOOLEAN
        /\ delivery[d].approval \in Approvals
  BY DEF DeliveryRecord
<1>2. ContextSnapshot(d) \in Snapshot
  BY <1>1, SnapTyped DEF ContextSnapshot
<1>3. Snap("CANCELLING", TRUE, delivery[d].approval) \in Snapshot
        /\ Snap("FAILED", FALSE, delivery[d].approval) \in Snapshot
        /\ FallbackSnapshot \in Snapshot
  BY <1>1 DEF Snap, Snapshot, Statuses, Terminal, Approvals, FallbackSnapshot
<1>4. QED
  BY <1>2, <1>3 DEF LiveSnapshot

\* Replacing one delivery by a well-formed one.
LEMMA DeliveryTyped ==
    ASSUME WorkerTypeOK, \A d \in Slots : WellFormed(delivery[d]),
           NEW d \in Slots, NEW rec, WellFormed(rec),
           Becomes(d, rec)
    PROVE  WorkerTypeOK' /\ (\A e \in Slots : WellFormed(delivery[e]))'
BY DEF WorkerTypeOK, WellFormed, Becomes

\* Handing a message out, taking it back and dropping it keep the stream typed.
LEMMA StreamTyped ==
    ASSUME workStream \in [Msgs -> Message], NEW m \in Msgs,
           \/ Deliverable(m)
              /\ workStream' = [workStream EXCEPT ![m].state = "out", ![m].tries = @ + 1]
           \/ workStream' = [workStream EXCEPT ![m].state = "ready"]
           \/ \E applied \in BOOLEAN : RemoveMsg(m, applied)
    PROVE  workStream' \in [Msgs -> Message]
<1>1. CASE Deliverable(m)
              /\ workStream' = [workStream EXCEPT ![m].state = "out", ![m].tries = @ + 1]
  BY <1>1 DEF Deliverable, Message
<1>2. CASE workStream' = [workStream EXCEPT ![m].state = "ready"]
  BY <1>2 DEF Message
<1>3. CASE \E applied \in BOOLEAN : RemoveMsg(m, applied)
  BY <1>3 DEF RemoveMsg, Message
<1>4. QED
  BY <1>1, <1>2, <1>3

\* A remote put keeps the store typed; so does one that fails to read.
LEMMA RemotePutTyped ==
    ASSUME StoreTypeOK, NEW r \in Runs, NEW snap \in Snapshot,
           NEW applied \in BOOLEAN, NEW err \in Errors,
           Remote(applied, err), PutRun(r, snap, applied), UNCHANGED workStream
    PROVE  StoreTypeOK'
BY RemoteTyped, PutTyped DEF StoreTypeOK

LEMMA RemoteOnlyTyped ==
    ASSUME StoreTypeOK, NEW applied \in BOOLEAN, NEW err \in Errors,
           Remote(applied, err), UNCHANGED <<runsKv, reached, workStream>>
    PROVE  StoreTypeOK'
BY RemoteTyped DEF StoreTypeOK

\* Every step of a handler keeps the types.
LEMMA HandlerTyped ==
    ASSUME Typed, NEW d \in Slots, HandlerStep(d)
    PROVE  StoreTypeOK' /\ WorkerTypeOK' /\ (\A e \in Slots : WellFormed(delivery[e]))'
<1> DEFINE rec == delivery[d]
<1>1. /\ WellFormed(rec) /\ rec \in DeliveryRecord
      /\ StoreTypeOK /\ WorkerTypeOK /\ \A e \in Slots : WellFormed(delivery[e])
  BY DEF WellFormed, Typed, TypeOK
<1>2. CASE DiscardInvalid(d)
  <2>1. rec.msg \in Msgs /\ WellFormed(Returned(rec))
    BY <1>1, <1>2 DEF DiscardInvalid, WellFormed, Returned, DeliveryRecord, Handling
  <2>2. StoreTypeOK'
    BY <1>1, <1>2, <2>1, RemoteTyped, StreamTyped DEF DiscardInvalid, StoreTypeOK
  <2>3. QED
    BY <1>1, <1>2, <2>1, <2>2, DeliveryTyped DEF DiscardInvalid
<1>3. CASE Ack(d)
  <2>1. /\ rec.msg \in Msgs /\ WellFormed(Returned(rec))
        /\ \A err \in Errors : WellFormed([rec EXCEPT !.pc = ErrorBranch(err)])
    BY <1>1, <1>3 DEF Ack, WellFormed, Returned, DeliveryRecord, Handling, ErrorBranch
  <2>2. ASSUME NEW applied \in BOOLEAN, NEW err \in Errors,
               Remote(applied, err), RemoveMsg(rec.msg, applied)
        PROVE  faultsLeft' \in 0..MaxFaults /\ workStream' \in [Msgs -> Message]
    BY <1>1, <2>1, <2>2, RemoteTyped, StreamTyped DEF StoreTypeOK
  <2>3. ASSUME faultsLeft > 0, faultsLeft' = faultsLeft - 1, UNCHANGED workStream
        PROVE  faultsLeft' \in 0..MaxFaults /\ workStream' \in [Msgs -> Message]
    BY <1>1, <2>3 DEF StoreTypeOK
  <2>4. StoreTypeOK'
    <3>1. UNCHANGED <<runsKv, reached>>
      BY <1>3 DEF Ack
    <3>2. faultsLeft' \in 0..MaxFaults /\ workStream' \in [Msgs -> Message]
      BY <1>3, <2>2, <2>3 DEF Ack
    <3>3. QED
      BY <1>1, <3>1, <3>2 DEF StoreTypeOK
  <2>5. QED
    BY <1>1, <1>3, <2>1, <2>4, DeliveryTyped DEF Ack
<1>4. CASE Nak(d)
  <2>1. rec.msg \in Msgs /\ WellFormed(Returned(rec))
    BY <1>1, <1>4 DEF Nak, WellFormed, Returned, DeliveryRecord, Handling
  <2>2. StoreTypeOK'
    BY <1>1, <1>4, <2>1, RemoteTyped, StreamTyped DEF Nak, StoreTypeOK
  <2>3. QED
    BY <1>1, <1>4, <2>1, <2>2, DeliveryTyped DEF Nak
<1>5. CASE RecordFailure(d)
  <2>1. /\ rec.run \in Runs
        /\ WellFormed([rec EXCEPT !.pc = "closing"]) /\ WellFormed([rec EXCEPT !.pc = "failed"])
    BY <1>1, <1>5 DEF RecordFailure, WellFormed, DeliveryRecord, Handling
  <2>2. StoreTypeOK'
    BY <1>1, <1>5, <2>1, RemotePutTyped, WrittenTyped DEF RecordFailure
  <2>3. QED
    BY <1>1, <1>5, <2>1, <2>2, DeliveryTyped DEF RecordFailure
<1>6. CASE ReadSnapshot(d)
  <2>1. PICK err \in Errors :
            LET snap == IF err = "none" THEN runsKv[rec.run] ELSE Absent IN
            /\ Remote(TRUE, err)
            /\ Becomes(d, [rec EXCEPT !.pc = "resolve", !.status = FreshStatus,
                               !.cancel = CancelRequested(snap), !.approval = snap.approval])
    BY <1>6 DEF ReadSnapshot
  <2> DEFINE snap == IF err = "none" THEN runsKv[rec.run] ELSE Absent
  <2>2. rec.run \in Runs /\ snap \in Snapshot
    BY <1>1, <1>6, AbsentTyped DEF ReadSnapshot, DeliveryRecord, StoreTypeOK
  <2>3. CancelRequested(snap) \in BOOLEAN /\ snap.approval \in Approvals
    BY <2>2 DEF CancelRequested, Snapshot
  <2>4. ASSUME NEW c \in BOOLEAN, NEW a \in Approvals
        PROVE  WellFormed([rec EXCEPT !.pc = "resolve", !.status = FreshStatus,
                               !.cancel = c, !.approval = a])
    BY <1>1, <1>6, <2>2
       DEF ReadSnapshot, WellFormed, DeliveryRecord, Handling, FreshStatus, Statuses
  <2>5. StoreTypeOK'
    BY <1>1, <1>6, <2>1, RemoteOnlyTyped DEF ReadSnapshot
  <2>6. QED
    BY <1>1, <2>1, <2>3, <2>4, <2>5, DeliveryTyped
<1>7. CASE FailResolve(d)
  <2>1. rec.run \in Runs /\ rec.pc \in Handling
    BY <1>1, <1>7 DEF FailResolve, WellFormed, Handling
  <2>2. StoreTypeOK'
    BY <1>1, <1>7, <2>1, RemotePutTyped, WrittenTyped DEF FailResolve
  <2>3. ASSUME NEW pc \in {"settled", "failed", "crashed"}
        PROVE  WellFormed([rec EXCEPT !.pc = pc])
    BY <1>1, <2>1 DEF WellFormed, DeliveryRecord, Handling
  <2>4. QED
    BY <1>1, <1>7, <2>2, <2>3, DeliveryTyped DEF FailResolve, ErrorBranch
<1>8. CASE TakeOwnership(d)
  <2>1. rec.run \in Runs /\ rec.pc \in Handling
    BY <1>1, <1>8 DEF TakeOwnership, WellFormed, Handling
  <2>2. StoreTypeOK'
    BY <1>1, <1>8, <2>1, RemotePutTyped, WrittenTyped DEF TakeOwnership
  <2>3. ASSUME NEW pc \in {"start", "failed", "crashed"}
        PROVE  WellFormed([rec EXCEPT !.heartbeat = "idle", !.pc = pc])
    BY <1>1, <2>1 DEF WellFormed, DeliveryRecord, Handling
  <2>4. QED
    BY <1>1, <1>8, <2>2, <2>3, DeliveryTyped DEF TakeOwnership, ErrorBranch
<1>9. CASE Finalize(d)
  <2>1. rec.run \in Runs /\ rec.pc \in Handling
    BY <1>1, <1>9 DEF Finalize, WellFormed, Handling
  <2>2. ASSUME NEW pc \in {"settled", "failed", "crashed"}
        PROVE  WellFormed([rec EXCEPT !.heartbeat = "off", !.pc = pc])
    BY <1>1, <2>1 DEF WellFormed, DeliveryRecord, Handling
  <2>3. CASE /\ Becomes(d, [rec EXCEPT !.heartbeat = "off", !.pc = ErrorBranch(rec.heartbeat)])
             /\ UNCHANGED <<runsKv, reached, faultsLeft, workStream>>
    BY <1>1, <2>2, <2>3, DeliveryTyped DEF ErrorBranch, StoreTypeOK
  <2>4. ASSUME NEW applied \in BOOLEAN, NEW err \in Errors, Remote(applied, err),
               PutRun(rec.run, ContextSnapshot(d), applied), UNCHANGED workStream,
               Becomes(d, [rec EXCEPT !.heartbeat = "off",
                               !.pc = IF err = "none" THEN "settled" ELSE ErrorBranch(err)])
        PROVE  StoreTypeOK' /\ WorkerTypeOK' /\ (\A e \in Slots : WellFormed(delivery[e]))'
    <3>1. StoreTypeOK'
      BY <1>1, <2>1, <2>4, RemotePutTyped, WrittenTyped
    <3>2. QED
      BY <1>1, <2>2, <2>4, <3>1, DeliveryTyped DEF ErrorBranch
  <2>5. QED
    BY <1>9, <2>3, <2>4 DEF Finalize
<1>10. QED
  BY <1>2, <1>3, <1>4, <1>5, <1>6, <1>7, <1>8, <1>9 DEF HandlerStep

\* Every step of a background task or of the engine keeps the types.
LEMMA BackgroundTyped ==
    ASSUME Typed, NEW d \in Slots,
           BackgroundStep(d) \/ EngineStep(d) \/ EngineEvent(d) \/ LoseProgress(d)
    PROVE  StoreTypeOK' /\ WorkerTypeOK' /\ (\A e \in Slots : WellFormed(delivery[e]))'
<1> DEFINE rec == delivery[d]
<1>1. /\ WellFormed(rec) /\ rec \in DeliveryRecord
      /\ StoreTypeOK /\ WorkerTypeOK /\ \A e \in Slots : WellFormed(delivery[e])
  BY DEF WellFormed, Typed, TypeOK
<1>2. CASE HeartbeatRead(d)
  <2>1. rec.run \in Runs /\ rec.heartbeat = "idle"
    BY <1>1, <1>2 DEF HeartbeatRead, WellFormed
  <2>2. PICK err \in Errors : Remote(TRUE, err)
    BY <1>2 DEF HeartbeatRead
  <2>3. StoreTypeOK'
    BY <1>1, <1>2, <2>2, RemoteOnlyTyped DEF HeartbeatRead
  <2>4. \E c \in BOOLEAN, s \in Statuses :
            Becomes(d, [rec EXCEPT !.heartbeat = "read", !.cancel = c, !.status = s])
    <3>1. \A c : StatusAfterBeat(d, c) \in Statuses
      BY <1>1 DEF StatusAfterBeat, DeliveryRecord, Statuses
    <3>2. CancelRequested(runsKv[rec.run]) \in BOOLEAN /\ rec.cancel \in BOOLEAN
      BY <1>1, <2>1 DEF CancelRequested, StoreTypeOK, Snapshot, DeliveryRecord
    <3>3. QED
      BY <1>2, <3>1, <3>2 DEF HeartbeatRead
  <2>5. ASSUME NEW c \in BOOLEAN, NEW s \in Statuses
        PROVE  WellFormed([rec EXCEPT !.heartbeat = "read", !.cancel = c, !.status = s])
    BY <1>1, <2>1 DEF WellFormed, DeliveryRecord
  <2>6. QED
    BY <1>1, <2>3, <2>4, <2>5, DeliveryTyped
<1>3. CASE HeartbeatPut(d)
  <2>1. rec.run \in Runs
    BY <1>1, <1>3 DEF HeartbeatPut, WellFormed
  <2>2. ASSUME NEW h \in {"idle", "NatsError", "Exception"}
        PROVE  WellFormed([rec EXCEPT !.heartbeat = h])
    BY <1>1, <2>1 DEF WellFormed, DeliveryRecord
  <2>3. StoreTypeOK'
    BY <1>1, <1>3, <2>1, RemotePutTyped, WrittenTyped DEF HeartbeatPut
  <2>4. QED
    BY <1>1, <1>3, <2>2, <2>3, DeliveryTyped DEF HeartbeatPut, Errors
<1>4. CASE Flush(d)
  <2>1. rec.run \in Runs
    BY <1>1, <1>4 DEF Flush, Flushing, WellFormed
  <2>2. ASSUME NEW f \in {"idle", "scheduled", "stale"}
        PROVE  WellFormed([rec EXCEPT !.flush = f])
    BY <1>1, <2>1 DEF WellFormed, DeliveryRecord
  <2>3. StoreTypeOK'
    BY <1>1, <1>4, <2>1, RemotePutTyped, WrittenTyped DEF Flush
  <2>4. QED
    BY <1>1, <1>4, <2>2, <2>3, DeliveryTyped DEF Flush
<1>5. CASE EngineStep(d) \/ EngineEvent(d)
  <2>1. rec.run \in Runs /\ UNCHANGED storeVars
    BY <1>1, <1>5 DEF EngineStep, EngineStart, EngineComplete, EngineCancelled, EngineFail,
                      EngineEnd, EngineEvent, WellFormed, Handling
  <2>2. \E pc \in {"engine", "final"}, s \in Statuses, f \in {"scheduled", "dirty"} :
            Becomes(d, [rec EXCEPT !.pc = pc, !.status = s, !.flush = f])
    <3>1. MarkedDirty(rec.flush) \in {"scheduled", "dirty"}
      BY DEF MarkedDirty
    <3>2. CASE EngineEvent(d)
      <4>1. rec = [rec EXCEPT !.pc = "engine", !.status = rec.status]
        BY <1>1, <3>2 DEF EngineEvent, DeliveryRecord
      <4>2. rec.status \in Statuses
        BY <1>1 DEF DeliveryRecord
      <4>3. Becomes(d, [rec EXCEPT !.pc = "engine", !.status = rec.status,
                                   !.flush = MarkedDirty(rec.flush)])
        BY <3>2, <4>1 DEF EngineEvent, Becomes
      <4>4. QED
        BY <3>1, <4>2, <4>3
    <3>3. CASE EngineStart(d)
      <4>1. Becomes(d, [rec EXCEPT !.pc = "engine", !.status = "RUNNING",
                                   !.flush = MarkedDirty(rec.flush)])
        BY <3>3 DEF EngineStart
      <4>2. QED
        BY <3>1, <4>1 DEF Statuses
    <3>4. ASSUME NEW s \in Statuses, EngineEnd(d, s)
          PROVE  \E f \in {"scheduled", "dirty"} :
                    Becomes(d, [rec EXCEPT !.pc = "final", !.status = s, !.flush = f])
      <4>1. Becomes(d, [rec EXCEPT !.pc = "final", !.status = s,
                                   !.flush = MarkedDirty(rec.flush)])
        BY <3>4 DEF EngineEnd
      <4>2. QED
        BY <3>1, <4>1
    <3>5. CASE \E s \in {"COMPLETED", "FAILED", "CANCELLED"} : EngineEnd(d, s)
      BY <3>4, <3>5 DEF Statuses, Terminal
    <3>6. QED
      BY <1>5, <3>2, <3>3, <3>5 DEF EngineStep, EngineComplete, EngineCancelled, EngineFail
  <2>3. ASSUME NEW pc \in {"engine", "final"}, NEW s \in Statuses,
               NEW f \in {"scheduled", "dirty"}
        PROVE  WellFormed([rec EXCEPT !.pc = pc, !.status = s, !.flush = f])
    <3>1. rec.pc \in Handling
      BY <1>5 DEF EngineStep, EngineStart, EngineComplete, EngineCancelled, EngineFail,
                  EngineEnd, EngineEvent, Handling
    <3>2. QED
      BY <1>1, <2>1, <3>1 DEF WellFormed, DeliveryRecord, Handling
  <2>4. StoreTypeOK'
    BY <1>1, <2>1 DEF StoreTypeOK, storeVars
  <2>5. QED
    BY <1>1, <2>2, <2>3, <2>4, DeliveryTyped
<1>6. CASE LoseProgress(d)
  <2>1. WellFormed([rec EXCEPT !.progress = FALSE])
    BY <1>1 DEF WellFormed, DeliveryRecord
  <2>2. StoreTypeOK'
    BY <1>1, <1>6 DEF LoseProgress, StoreTypeOK
  <2>3. QED
    BY <1>1, <1>6, <2>1, <2>2, DeliveryTyped DEF LoseProgress
<1>7. QED
  BY <1>2, <1>3, <1>4, <1>5, <1>6 DEF BackgroundStep

\* Every step of the workers and of the server's timers keeps the types.
LEMMA WorkerTyped ==
    ASSUME Typed, WorkerNext, UNCHANGED request
    PROVE  Typed'
<1>1. /\ StoreTypeOK /\ GatewayTypeOK /\ WorkerTypeOK
      /\ \A e \in Slots : WellFormed(delivery[e])
  BY DEF Typed, TypeOK
<1>2. GatewayTypeOK'
  BY <1>1 DEF GatewayTypeOK
<1>3. SUFFICES StoreTypeOK' /\ WorkerTypeOK' /\ (\A e \in Slots : WellFormed(delivery[e]))'
  BY <1>2 DEF Typed, TypeOK
<1>4. ASSUME NEW d \in Slots, NEW w \in Workers, NEW m \in Msgs, Fetch(d, w, m)
      PROVE  StoreTypeOK' /\ WorkerTypeOK' /\ (\A e \in Slots : WellFormed(delivery[e]))'
  <2>1. StoreTypeOK'
    BY <1>1, <1>4, StreamTyped DEF Fetch, StoreTypeOK
  <2>2. workStream[m].run \in Runs \cup {NoRun}
    BY <1>1 DEF StoreTypeOK, Message
  <2>3. WellFormed(Fetched(w, m))
    <3>1. FreeSlot(w) \in DeliveryRecord
      BY DEF FreeSlot, DeliveryRecord, Statuses, Approvals
    <3>2. FreeSlot(w).heartbeat = "off" /\ FreeSlot(w).flush = "idle"
      BY DEF FreeSlot
    <3>3. ASSUME NEW slot \in DeliveryRecord, slot.heartbeat = "off", slot.flush = "idle",
                 NEW r \in Runs \cup {NoRun}
          PROVE  WellFormed([slot EXCEPT !.pc = "fetched", !.msg = m,
                                         !.run = r, !.progress = TRUE])
      <4>1. m \in 0..MaxMsgs
        BY DEF Msgs
      <4>2. [slot EXCEPT !.pc = "fetched", !.msg = m, !.run = r, !.progress = TRUE]
                \in DeliveryRecord
        BY <3>3, <4>1 DEF DeliveryRecord, Handling
      <4>3. QED
        BY <3>3, <4>2 DEF WellFormed, DeliveryRecord, Handling
    <3>4. QED
      BY <2>2, <3>1, <3>2, <3>3 DEF Fetched
  <2>4. QED
    BY <1>1, <1>4, <2>1, <2>3, DeliveryTyped DEF Fetch
<1>5. ASSUME NEW w \in Workers, WorkerCrash(w)
      PROVE  StoreTypeOK' /\ WorkerTypeOK' /\ (\A e \in Slots : WellFormed(delivery[e]))'
  <2>1. StoreTypeOK'
    <3>1. /\ faultsLeft > 0 /\ faultsLeft' = faultsLeft - 1
          /\ UNCHANGED <<runsKv, reached, workStream>>
      BY <1>5 DEF WorkerCrash
    <3>2. QED
      BY <1>1, <3>1 DEF StoreTypeOK
  <2>2. ASSUME NEW d \in Slots
        PROVE  WellFormed([delivery[d] EXCEPT !.pc = "dead", !.heartbeat = "off",
                                              !.flush = "idle", !.progress = FALSE])
    BY <1>1 DEF WellFormed, DeliveryRecord, Handling, WorkerTypeOK
  <2>3. \A d \in Slots : WellFormed(delivery'[d])
    BY <1>1, <1>5, <2>2 DEF WorkerCrash
  <2>4. WorkerTypeOK'
    BY <1>5, <2>3 DEF WorkerCrash, WellFormed, WorkerTypeOK
  <2>5. QED
    BY <2>1, <2>3, <2>4
<1>6. ASSUME NEW m \in Msgs, AckWaitExpires(m)
      PROVE  StoreTypeOK' /\ WorkerTypeOK' /\ (\A e \in Slots : WellFormed(delivery[e]))'
  BY <1>1, <1>6, StreamTyped DEF AckWaitExpires, StoreTypeOK, WorkerTypeOK
<1>7. QED
  BY <1>4, <1>5, <1>6, HandlerTyped, BackgroundTyped DEF WorkerNext

\* Every state of the system is well typed, and every task that can write a
\* snapshot does so for a run that was really submitted.
THEOREM TypeCorrect == Spec => []Typed
<1>1. Init => Typed
  BY InitTyped
<1>2. Typed /\ [Next]_vars => Typed'
  <2>1. ASSUME Typed, Next PROVE Typed'
    BY <2>1, GatewayTyped, WorkerTyped DEF Next
  <2>2. ASSUME Typed, UNCHANGED vars PROVE Typed'
    BY <2>2 DEF vars, Typed, TypeOK, StoreTypeOK, GatewayTypeOK, WorkerTypeOK
  <2>3. QED
    BY <2>1, <2>2
<1>3. QED
  BY <1>1, <1>2, PTL DEF Spec

THEOREM TypeInvariant == Spec => []TypeOK
<1>1. Typed => TypeOK
  BY DEF Typed
<1>2. QED
  BY <1>1, TypeCorrect, PTL

-----------------------------------------------------------------------------
(* The inductive invariant.  NoAcceptedRunLost alone is not inductive: that *)
(* an ack may drop a message rests on the handler's position saying that a *)
(* terminal snapshot of the message's own run was stored.                  *)

\* A handler holds a message of its run; once the engine has ended, the status
\* it is about to store is terminal; once it may ack, it has been stored.
DeliverySound(rec) ==
    /\ rec.pc \in Handling =>
        workStream[rec.msg].state # "unused" /\ rec.run = workStream[rec.msg].run
    /\ rec.pc = "final" => rec.status \in Terminal
    /\ rec.pc \in {"settled", "closing"} => rec.run \in reached

\* A message leaves the stream only after a terminal snapshot of its run.
DropSound(m) ==
    workStream[m].state = "gone" /\ workStream[m].run # NoRun => workStream[m].run \in reached

\* An accepted request has put its job in the stream.
AcceptSound(q) ==
    Enqueues(q) /\ request[q].answer = "accepted" =>
        \E m \in Msgs : workStream[m].run = ReqRun[q] /\ workStream[m].state # "unused"

QueueInv ==
    /\ \A d \in Slots : DeliverySound(delivery[d])
    /\ \A m \in Msgs : DropSound(m)
    /\ \A q \in Requests : AcceptSound(q)

LEMMA InitQueue == Init => QueueInv
BY DEF Init, StoreInit, GatewayInit, WorkerInit, FreeSlot, QueueInv, DeliverySound,
       DropSound, AcceptSound, Handling

-----------------------------------------------------------------------------
(* What every step leaves alone: a stored message keeps its run, and a run *)
(* that has reached a terminal snapshot has done so for good.               *)

MessagesStay ==
    \A m \in Msgs : workStream[m].state # "unused" =>
        workStream'[m].state # "unused" /\ workStream'[m].run = workStream[m].run

LEMMA SoundStays ==
    ASSUME reached \subseteq reached', MessagesStay,
           NEW rec, rec.pc \in Handling => rec.msg \in Msgs, DeliverySound(rec)
    PROVE  /\ rec.pc \in Handling =>
                workStream'[rec.msg].state # "unused" /\ rec.run = workStream'[rec.msg].run
           /\ rec.pc = "final" => rec.status \in Terminal
           /\ rec.pc \in {"settled", "closing"} => rec.run \in reached'
BY DEF MessagesStay, DeliverySound, Handling

\* A step that changes at most one delivery, and that one soundly.
LEMMA QueueStep ==
    ASSUME Typed, QueueInv, MessagesStay, reached \subseteq reached',
           \A m \in Msgs : DropSound(m)',
           \A d \in Slots : delivery'[d] = delivery[d] \/ DeliverySound(delivery[d])',
           \A q \in Requests : request'[q] = request[q] \/ AcceptSound(q)'
    PROVE  QueueInv'
<1>1. ASSUME NEW d \in Slots PROVE DeliverySound(delivery[d])'
  <2>1. CASE delivery'[d] = delivery[d]
    <3>1. delivery[d].pc \in Handling => delivery[d].msg \in Msgs
      BY DEF Typed, WellFormed
    <3>2. DeliverySound(delivery[d])
      BY DEF QueueInv
    <3>3. QED
      BY <2>1, <3>1, <3>2, SoundStays DEF DeliverySound
  <2>2. QED
    BY <2>1
<1>2. ASSUME NEW q \in Requests PROVE AcceptSound(q)'
  <2>1. CASE request'[q] = request[q]
    BY <2>1 DEF QueueInv, AcceptSound, MessagesStay, Enqueues
  <2>2. QED
    BY <2>1
<1>3. QED
  BY <1>1, <1>2 DEF QueueInv

\* A put only adds to `reached`, and a terminal snapshot that was applied is
\* in it.
LEMMA PutReaches ==
    ASSUME NEW r, NEW snap, NEW applied \in BOOLEAN, PutRun(r, snap, applied)
    PROVE  /\ reached \subseteq reached'
           /\ applied /\ snap.status \in Terminal => r \in reached'
BY DEF PutRun

LEMMA StreamKept ==
    ASSUME QueueInv, reached \subseteq reached', UNCHANGED workStream
    PROVE  MessagesStay /\ \A m \in Msgs : DropSound(m)'
BY DEF QueueInv, MessagesStay, DropSound

-----------------------------------------------------------------------------
LEMMA GatewayQueue ==
    ASSUME Typed, QueueInv, GatewayNext, UNCHANGED delivery
    PROVE  QueueInv'
<1>1. PICK q \in Requests : RequestStep(q) \/ GatewayCrash(q)
  BY DEF GatewayNext
<1>2. request \in [Requests -> RequestRecord] /\ workStream \in [Msgs -> Message]
  BY DEF Typed, TypeOK, GatewayTypeOK, StoreTypeOK
<1>3. ASSUME NEW pc, Goto(q, pc)
      PROVE  \A p \in Requests : request'[p] = request[p] \/ AcceptSound(p)'
                \/ (p = q /\ request'[q].answer = request[q].answer)
  BY <1>2, <1>3 DEF Goto, RequestRecord
<1>4. ASSUME NEW answer, Answer(q, answer), Enqueues(q) => answer # "accepted"
      PROVE  \A p \in Requests : request'[p] = request[p] \/ AcceptSound(p)'
  BY <1>2, <1>4 DEF Answer, AcceptSound, Enqueues, RequestRecord
<1>5. ASSUME MessagesStay, NEW pc, Goto(q, pc)
      PROVE  \A p \in Requests : request'[p] = request[p] \/ AcceptSound(p)'
  BY <1>3, <1>5 DEF QueueInv, AcceptSound, MessagesStay, Enqueues
<1>6. CASE UNCHANGED workStream /\ reached \subseteq reached'
           /\ \A p \in Requests : request'[p] = request[p] \/ AcceptSound(p)'
  BY <1>6, StreamKept, QueueStep
<1>7. CASE SubmitPut(q)
  <2>1. UNCHANGED workStream /\ reached \subseteq reached'
    BY <1>7, PutReaches DEF SubmitPut
  <2>2. (\E pc : Goto(q, pc)) \/ Answer(q, "failed")
    BY <1>7 DEF SubmitPut
  <2>3. QED
    BY <1>4, <1>5, <1>6, <2>1, <2>2, StreamKept
<1>8. CASE RelatePut(q)
  <2>1. UNCHANGED <<workStream, reached>>
    BY <1>8 DEF RelatePut
  <2>2. (\E pc : Goto(q, pc)) \/ (Answer(q, "accepted") /\ ~Enqueues(q))
    BY <1>8 DEF RelatePut, Enqueues
  <2>3. QED
    BY <1>4, <1>5, <1>6, <2>1, <2>2, StreamKept
<1>9. CASE PublishJob(q)
  <2>1. PICK applied \in BOOLEAN, err \in Errors :
            /\ err = "none" => applied
            /\ PublishRun(ReqRun[q], applied)
            /\ (\E pc : Goto(q, pc)) \/ Answer(q, "failed")
                \/ (err = "none" /\ Answer(q, "accepted"))
    BY <1>9 DEF PublishJob, Remote
  <2>2. UNCHANGED reached /\ ReqRun[q] # NoRun
    BY <1>9 DEF PublishJob
  <2>3. MessagesStay /\ \A m \in Msgs : DropSound(m)'
    <3>1. CASE ~applied
      BY <2>1, <2>2, <3>1, StreamKept DEF PublishRun
    <3>2. CASE applied
      BY <1>2, <2>1, <2>2, <3>2 DEF PublishRun, MessagesStay, QueueInv, DropSound
    <3>3. QED
      BY <3>1, <3>2
  <2>4. CASE Answer(q, "accepted") /\ applied
    <3>1. \E m \in Msgs : workStream'[m].run = ReqRun[q] /\ workStream'[m].state # "unused"
      BY <1>2, <2>1, <2>4 DEF PublishRun
    <3>2. \A p \in Requests : request'[p] = request[p] \/ AcceptSound(p)'
      BY <1>2, <2>4, <3>1 DEF Answer, AcceptSound
    <3>3. QED
      BY <2>2, <2>3, <3>2, QueueStep
  <2>5. CASE (\E pc : Goto(q, pc)) \/ Answer(q, "failed")
    BY <1>4, <1>5, <2>2, <2>3, <2>5, QueueStep
  <2>6. QED
    BY <2>1, <2>4, <2>5
<1>10. CASE Undo(q)
  <2>1. UNCHANGED workStream /\ reached \subseteq reached' /\ Answer(q, "failed")
    BY <1>10, PutReaches DEF Undo
  <2>2. QED
    BY <1>4, <1>6, <2>1
<1>11. CASE ReadRun(q)
  <2>1. UNCHANGED <<workStream, reached>>
    BY <1>11 DEF ReadRun
  <2>2. \A p \in Requests : request'[p] = request[p] \/ AcceptSound(p)'
    <3>1. CASE Answer(q, "failed")
      BY <1>4, <3>1
    <3>2. CASE \E seen, pc, answer :
                /\ request' = [request EXCEPT ![q] =
                        [pc |-> pc, seen |-> seen, answer |-> answer]]
                /\ answer = "accepted" => ReqKind[q] = "cancel"
      BY <1>2, <3>2 DEF AcceptSound, Enqueues
    <3>3. QED
      BY <1>11, <3>1, <3>2 DEF ReadRun
  <2>3. QED
    BY <1>6, <2>1, <2>2
<1>12. CASE DecisionPut(q)
  <2>1. UNCHANGED workStream /\ reached \subseteq reached'
    BY <1>12, PutReaches DEF DecisionPut
  <2>2. (\E pc : Goto(q, pc)) \/ Answer(q, "failed") \/ (Answer(q, "accepted") /\ ~Enqueues(q))
    BY <1>12 DEF DecisionPut, Enqueues, At
  <2>3. QED
    BY <1>4, <1>5, <1>6, <2>1, <2>2, StreamKept
<1>13. CASE GatewayCrash(q)
  <2>1. UNCHANGED <<workStream, reached>> /\ Answer(q, "failed")
    BY <1>13 DEF GatewayCrash
  <2>2. QED
    BY <1>4, <1>6, <2>1
<1>14. QED
  BY <1>1, <1>7, <1>8, <1>9, <1>10, <1>11, <1>12, <1>13 DEF RequestStep

-----------------------------------------------------------------------------
\* A step of one delivery that stays with its job.
LEMMA DeliveryStep ==
    ASSUME Typed, QueueInv, MessagesStay, reached \subseteq reached',
           \A m \in Msgs : DropSound(m)',
           UNCHANGED request, NEW d \in Slots, NEW rec, Becomes(d, rec),
           rec.msg = delivery[d].msg, rec.run = delivery[d].run,
           rec.pc \in Handling => delivery[d].pc \in Handling,
           rec.pc = "final" => rec.status \in Terminal,
           rec.pc \in {"settled", "closing"} => rec.run \in reached'
    PROVE  QueueInv'
<1>1. delivery'[d] = rec /\ \A e \in Slots : e # d => delivery'[e] = delivery[e]
  BY DEF Becomes, Typed, TypeOK, WorkerTypeOK
<1>2. DeliverySound(delivery[d])'
  <2>1. DeliverySound(delivery[d]) /\ (delivery[d].pc \in Handling => delivery[d].msg \in Msgs)
    BY DEF QueueInv, Typed, WellFormed
  <2>2. QED
    BY <1>1, <2>1 DEF DeliverySound, MessagesStay
<1>3. QED
  BY <1>1, <1>2, QueueStep

\* Nothing but a put: the stream is as it was.
LEMMA PutStep ==
    ASSUME Typed, QueueInv, reached \subseteq reached', UNCHANGED workStream,
           UNCHANGED request, NEW d \in Slots, NEW rec, Becomes(d, rec),
           rec.msg = delivery[d].msg, rec.run = delivery[d].run,
           rec.pc \in Handling => delivery[d].pc \in Handling,
           rec.pc = "final" => rec.status \in Terminal,
           rec.pc \in {"settled", "closing"} => rec.run \in reached'
    PROVE  QueueInv'
BY StreamKept, DeliveryStep

\* Dropping a message that holds no job, or one whose run is over.
LEMMA RemoveKept ==
    ASSUME Typed, QueueInv, UNCHANGED reached, NEW m \in Msgs, NEW applied \in BOOLEAN,
           RemoveMsg(m, applied), workStream[m].state # "unused",
           workStream[m].run = NoRun \/ workStream[m].run \in reached
    PROVE  MessagesStay /\ \A k \in Msgs : DropSound(k)'
BY DEF RemoveMsg, Typed, TypeOK, StoreTypeOK, Message, MessagesStay, QueueInv, DropSound

\* Handing a message out again, or taking it back, drops nothing.
LEMMA RequeueKept ==
    ASSUME Typed, QueueInv, UNCHANGED reached, NEW m \in Msgs,
           workStream[m].state # "unused",
           \/ workStream' = [workStream EXCEPT ![m].state = "ready"]
           \/ workStream' = [workStream EXCEPT ![m].state = "out", ![m].tries = @ + 1]
    PROVE  MessagesStay /\ \A k \in Msgs : DropSound(k)'
BY DEF Typed, TypeOK, StoreTypeOK, Message, MessagesStay, QueueInv, DropSound

LEMMA HandlerQueue ==
    ASSUME Typed, QueueInv, NEW d \in Slots, HandlerStep(d), UNCHANGED request
    PROVE  QueueInv'
<1> DEFINE rec == delivery[d]
<1>1. /\ rec \in DeliveryRecord /\ DeliverySound(rec)
      /\ rec.pc \in Handling => rec.msg \in Msgs
  BY DEF Typed, WellFormed, QueueInv
<1>2. CASE DiscardInvalid(d)
  <2>1. rec.pc = "fetched" /\ rec.run = NoRun /\ UNCHANGED reached
    BY <1>2 DEF DiscardInvalid
  <2>2. MessagesStay /\ \A m \in Msgs : DropSound(m)'
    BY <1>1, <1>2, <2>1, RemoveKept DEF DiscardInvalid, DeliverySound, Handling
  <2>3. QED
    BY <1>1, <1>2, <2>1, <2>2, DeliveryStep
       DEF DiscardInvalid, Returned, DeliveryRecord, Handling
<1>3. CASE Ack(d)
  <2>1. rec.pc \in {"settled", "closing"} /\ UNCHANGED reached
    BY <1>3 DEF Ack
  <2>2. MessagesStay /\ \A m \in Msgs : DropSound(m)'
    BY <1>1, <1>3, <2>1, RemoveKept, StreamKept DEF Ack, DeliverySound, Handling
  <2>3. \E pc \in {"done", "failed", "crashed"}, p \in BOOLEAN :
            Becomes(d, [rec EXCEPT !.pc = pc, !.progress = p])
    <3>1. rec.progress \in BOOLEAN
            /\ \A pc : [rec EXCEPT !.pc = pc] = [rec EXCEPT !.pc = pc, !.progress = rec.progress]
      BY <1>1 DEF DeliveryRecord
    <3>2. \A err : ErrorBranch(err) \in {"failed", "crashed"}
      BY DEF ErrorBranch
    <3>3. QED
      BY <1>3, <3>1, <3>2 DEF Ack, Returned
  <2>4. QED
    BY <1>1, <2>1, <2>2, <2>3, DeliveryStep DEF DeliveryRecord, Handling
<1>4. CASE Nak(d)
  <2>1. rec.pc = "failed" /\ UNCHANGED reached
    BY <1>4 DEF Nak
  <2>2. MessagesStay /\ \A m \in Msgs : DropSound(m)'
    BY <1>1, <1>4, <2>1, RequeueKept, StreamKept DEF Nak, DeliverySound, Handling
  <2>3. QED
    BY <1>1, <1>4, <2>1, <2>2, DeliveryStep DEF Nak, Returned, DeliveryRecord, Handling
<1>5. CASE RecordFailure(d)
  <2>1. PICK applied \in BOOLEAN, err \in Errors :
            /\ err = "none" => applied
            /\ PutRun(rec.run, FallbackSnapshot, applied)
            /\ Becomes(d, [rec EXCEPT !.pc = IF err = "none" THEN "closing" ELSE "failed"])
    BY <1>5 DEF RecordFailure, Remote
  <2>2. reached \subseteq reached' /\ (err = "none" => rec.run \in reached')
    BY <2>1, PutReaches DEF FallbackSnapshot, Snap, Terminal
  <2>3. QED
    BY <1>1, <1>5, <2>1, <2>2, PutStep DEF RecordFailure, DeliveryRecord, Handling
<1>6. CASE ReadSnapshot(d)
  <2>1. PICK c, a : Becomes(d, [rec EXCEPT !.pc = "resolve", !.status = FreshStatus,
                                    !.cancel = c, !.approval = a])
    BY <1>6 DEF ReadSnapshot
  <2>2. QED
    BY <1>1, <1>6, <2>1, PutStep DEF ReadSnapshot, DeliveryRecord, Handling
<1>7. CASE FailResolve(d)
  <2>1. PICK applied \in BOOLEAN, err \in Errors :
            /\ err = "none" => applied
            /\ PutRun(rec.run, Snap("FAILED", FALSE, rec.approval), applied)
            /\ Becomes(d, [rec EXCEPT !.pc = IF err = "none" THEN "settled" ELSE ErrorBranch(err)])
    BY <1>7 DEF FailResolve, Remote
  <2>2. reached \subseteq reached' /\ (err = "none" => rec.run \in reached')
    BY <2>1, PutReaches DEF Snap, Terminal
  <2>3. QED
    BY <1>1, <1>7, <2>1, <2>2, PutStep DEF FailResolve, ErrorBranch, DeliveryRecord, Handling
<1>8. CASE TakeOwnership(d)
  <2>1. PICK applied \in BOOLEAN, err \in Errors :
            /\ PutRun(rec.run, LiveSnapshot(d), applied)
            /\ Becomes(d, [rec EXCEPT !.heartbeat = "idle",
                                !.pc = IF err = "none" THEN "start" ELSE ErrorBranch(err)])
    BY <1>8 DEF TakeOwnership
  <2>2. reached \subseteq reached'
    BY <2>1, PutReaches
  <2>3. QED
    BY <1>1, <1>8, <2>1, <2>2, PutStep DEF TakeOwnership, ErrorBranch, DeliveryRecord, Handling
<1>9. CASE Finalize(d)
  <2>1. rec.pc = "final" /\ rec.status \in Terminal
    BY <1>1, <1>9 DEF Finalize, DeliverySound
  <2>2. CASE /\ Becomes(d, [rec EXCEPT !.heartbeat = "off", !.pc = ErrorBranch(rec.heartbeat)])
             /\ UNCHANGED <<reached, workStream>>
    BY <1>1, <2>1, <2>2, PutStep DEF ErrorBranch, DeliveryRecord, Handling
  <2>3. ASSUME NEW applied \in BOOLEAN, NEW err \in Errors, err = "none" => applied,
               PutRun(rec.run, ContextSnapshot(d), applied), UNCHANGED workStream,
               Becomes(d, [rec EXCEPT !.heartbeat = "off",
                               !.pc = IF err = "none" THEN "settled" ELSE ErrorBranch(err)])
        PROVE  QueueInv'
    <3>1. reached \subseteq reached' /\ (err = "none" => rec.run \in reached')
      BY <2>1, <2>3, PutReaches DEF ContextSnapshot, Snap
    <3>2. QED
      BY <1>1, <2>1, <2>3, <3>1, PutStep DEF ErrorBranch, DeliveryRecord, Handling
  <2>4. QED
    BY <1>9, <2>2, <2>3 DEF Finalize, Remote
<1>10. QED
  BY <1>2, <1>3, <1>4, <1>5, <1>6, <1>7, <1>8, <1>9 DEF HandlerStep

LEMMA BackgroundQueue ==
    ASSUME Typed, QueueInv, NEW d \in Slots, UNCHANGED request,
           BackgroundStep(d) \/ EngineStep(d) \/ EngineEvent(d) \/ LoseProgress(d)
    PROVE  QueueInv'
<1> DEFINE rec == delivery[d]
<1>1. rec \in DeliveryRecord /\ DeliverySound(rec)
  BY DEF Typed, WellFormed, QueueInv
<1>2. CASE HeartbeatRead(d)
  <2>1. PICK c : Becomes(d, [rec EXCEPT !.heartbeat = "read", !.cancel = c,
                                        !.status = StatusAfterBeat(d, c)])
    BY <1>2 DEF HeartbeatRead
  <2>2. StatusAfterBeat(d, c) = rec.status \/ rec.pc = "engine"
    BY DEF StatusAfterBeat
  <2>3. QED
    BY <1>1, <1>2, <2>1, <2>2, PutStep DEF HeartbeatRead, DeliverySound, DeliveryRecord
<1>3. CASE HeartbeatPut(d)
  <2>1. PICK applied, h :
            /\ applied \in BOOLEAN /\ PutRun(rec.run, LiveSnapshot(d), applied)
            /\ Becomes(d, [rec EXCEPT !.heartbeat = h])
    BY <1>3 DEF HeartbeatPut
  <2>2. reached \subseteq reached'
    BY <2>1, PutReaches
  <2>3. QED
    BY <1>1, <1>3, <2>1, <2>2, PutStep DEF HeartbeatPut, DeliverySound, DeliveryRecord
<1>4. CASE Flush(d)
  <2>1. PICK applied, f :
            /\ applied \in BOOLEAN /\ PutRun(rec.run, ContextSnapshot(d), applied)
            /\ Becomes(d, [rec EXCEPT !.flush = f])
    BY <1>4 DEF Flush
  <2>2. reached \subseteq reached'
    BY <2>1, PutReaches
  <2>3. QED
    BY <1>1, <1>4, <2>1, <2>2, PutStep DEF Flush, DeliverySound, DeliveryRecord
<1>5. CASE EngineStep(d) \/ EngineEvent(d)
  <2>1. UNCHANGED <<reached, workStream>> /\ rec.pc \in {"start", "engine"}
    BY <1>5 DEF EngineStep, EngineStart, EngineComplete, EngineCancelled, EngineFail,
                EngineEnd, EngineEvent, storeVars
  <2>2. \/ \E f : Becomes(d, [rec EXCEPT !.flush = f])
        \/ \E pc \in {"engine", "final"} : \E s, f :
            /\ Becomes(d, [rec EXCEPT !.pc = pc, !.status = s, !.flush = f])
            /\ pc = "final" => s \in Terminal
    <3>1. CASE EngineEvent(d)
      BY <3>1 DEF EngineEvent
    <3>2. CASE EngineStart(d)
      BY <3>2 DEF EngineStart
    <3>3. CASE \E s \in Terminal : EngineEnd(d, s)
      BY <3>3 DEF EngineEnd
    <3>4. QED
      BY <1>5, <3>1, <3>2, <3>3
         DEF EngineStep, EngineComplete, EngineCancelled, EngineFail, Terminal
  <2>3. QED
    BY <1>1, <2>1, <2>2, PutStep DEF DeliveryRecord, Handling
<1>6. CASE LoseProgress(d)
  <2>1. Becomes(d, [rec EXCEPT !.progress = FALSE]) /\ UNCHANGED <<reached, workStream>>
    BY <1>6 DEF LoseProgress
  <2>2. QED
    BY <1>1, <2>1, PutStep DEF DeliverySound, DeliveryRecord
<1>7. QED
  BY <1>2, <1>3, <1>4, <1>5, <1>6 DEF BackgroundStep

LEMMA WorkerQueue ==
    ASSUME Typed, QueueInv, WorkerNext, UNCHANGED request
    PROVE  QueueInv'
<1>1. delivery \in [Slots -> DeliveryRecord]
  BY DEF Typed, TypeOK, WorkerTypeOK
<1>2. ASSUME NEW d \in Slots, NEW w \in Workers, NEW m \in Msgs, Fetch(d, w, m)
      PROVE  QueueInv'
  <2>1. workStream[m].state = "ready" /\ UNCHANGED reached
    BY <1>2 DEF Fetch, Deliverable
  <2>2. MessagesStay /\ \A k \in Msgs : DropSound(k)'
    BY <1>2, <2>1, RequeueKept DEF Fetch
  <2>3. /\ delivery'[d].pc = "fetched" /\ delivery'[d].msg = m
        /\ delivery'[d].run = workStream[m].run
        /\ \A e \in Slots : e # d => delivery'[e] = delivery[e]
    BY <1>1, <1>2 DEF Fetch, Fetched, Becomes, FreeSlot
  <2>4. DeliverySound(delivery[d])'
    BY <2>1, <2>2, <2>3 DEF DeliverySound, MessagesStay
  <2>5. QED
    BY <2>1, <2>2, <2>3, <2>4, QueueStep
<1>3. ASSUME NEW w \in Workers, WorkerCrash(w)
      PROVE  QueueInv'
  <2>1. UNCHANGED <<reached, workStream>>
    BY <1>3 DEF WorkerCrash
  <2>2. \A d \in Slots : delivery'[d] = delivery[d] \/ delivery'[d].pc = "dead"
    <3>1. ASSUME NEW d \in Slots
          PROVE  [delivery[d] EXCEPT !.pc = "dead", !.heartbeat = "off",
                                     !.flush = "idle", !.progress = FALSE].pc = "dead"
      BY <1>1 DEF DeliveryRecord
    <3>2. QED
      BY <1>3, <3>1 DEF WorkerCrash
  <2>3. \A d \in Slots : delivery'[d] = delivery[d] \/ DeliverySound(delivery[d])'
    BY <2>2 DEF DeliverySound, Handling
  <2>4. QED
    BY <2>1, <2>3, StreamKept, QueueStep
<1>4. ASSUME NEW m \in Msgs, AckWaitExpires(m)
      PROVE  QueueInv'
  <2>1. MessagesStay /\ \A k \in Msgs : DropSound(k)'
    BY <1>4, RequeueKept DEF AckWaitExpires
  <2>2. QED
    BY <1>4, <2>1, QueueStep DEF AckWaitExpires
<1>5. QED
  BY <1>2, <1>3, <1>4, HandlerQueue, BackgroundQueue DEF WorkerNext

-----------------------------------------------------------------------------
\* The queue invariant holds in every state.
LEMMA QueueInvariant == Spec => []QueueInv
<1>1. Typed /\ QueueInv /\ [Next]_vars => QueueInv'
  <2>1. ASSUME Typed, QueueInv, Next PROVE QueueInv'
    BY <2>1, GatewayQueue, WorkerQueue DEF Next
  <2>2. ASSUME QueueInv, UNCHANGED vars PROVE QueueInv'
    BY <2>2 DEF vars, QueueInv, DeliverySound, DropSound, AcceptSound, Enqueues
  <2>3. QED
    BY <2>1, <2>2
<1>2. QED
  BY <1>1, InitQueue, TypeCorrect, PTL DEF Spec

\* However calls fail, messages are redelivered and processes crash, a run
\* whose submit or approve was accepted (http_api.py answers 200 only after
\* js.publish) still has its message in the work queue or has had a terminal
\* snapshot stored (worker.py acks only after that put).
THEOREM AcceptedRunsKept == Spec => []NoAcceptedRunLost
<1>1. Typed /\ QueueInv => NoAcceptedRunLost
  <2>1. SUFFICES ASSUME Typed, QueueInv, NEW q \in Requests,
                        Enqueues(q), request[q].answer = "accepted"
                 PROVE  \E m \in Msgs :
                            /\ workStream[m].run = ReqRun[q]
                            /\ \/ workStream[m].state \in {"ready", "out"}
                               \/ workStream[m].state = "gone" /\ ReqRun[q] \in reached
    BY DEF NoAcceptedRunLost
  <2>2. PICK m \in Msgs : workStream[m].run = ReqRun[q] /\ workStream[m].state # "unused"
    BY <2>1 DEF QueueInv, AcceptSound
  <2>3. workStream[m].state \in {"ready", "out", "gone"} /\ workStream[m].run # NoRun
    BY <2>1, <2>2 DEF Typed, TypeOK, StoreTypeOK, Message
  <2>4. QED
    BY <2>1, <2>2, <2>3 DEF QueueInv, DropSound
<1>2. QED
  BY <1>1, TypeCorrect, QueueInvariant, PTL

-----------------------------------------------------------------------------
(* Retries.  RetriesNeedFaults is not inductive: a failure is paid for when *)
(* it happens and the redelivery it leads to comes later.  What is due on a *)
(* message counts the failures still to be turned into a redelivery: the   *)
(* handlers in an error branch, or whose heartbeat died of a failed put.    *)
(* One delivery more than was paid for is out as long as somebody reports   *)
(* progress on it.                                                          *)

InTrouble(rec) ==
    \/ rec.pc \in {"failed", "crashed", "closing"}
    \/ rec.pc \in Handling /\ rec.heartbeat \in {"NatsError", "Exception"}

Reporting(rec) == rec.pc \in Handling /\ rec.progress

Troubled(m) == {d \in Slots : delivery[d].msg = m /\ InTrouble(delivery[d])}
Attended(m) == \E d \in Slots : delivery[d].msg = m /\ Reporting(delivery[d])

Due(m) == workStream[m].tries + Cardinality(Troubled(m))

RetrySound(m) ==
    /\ workStream[m].state = "ready" => Due(m) <= Spent
    /\ workStream[m].state = "out" => Due(m) <= Spent + (IF Attended(m) THEN 1 ELSE 0)

RetryInv == \A m \in Msgs : RetrySound(m)

\* What a delivery adds to the debt of its message.
Burden(rec) == (IF InTrouble(rec) THEN 1 ELSE 0) + (IF Reporting(rec) THEN 0 ELSE 1)

LEMMA TroubledFinite ==
    ASSUME NEW m
    PROVE  IsFiniteSet(Troubled(m)) /\ Cardinality(Troubled(m)) \in Nat
<1>1. IsFiniteSet(Slots)
  BY FS_Interval DEF Slots
<1>2. Troubled(m) \subseteq Slots
  BY DEF Troubled
<1>3. QED
  BY <1>1, <1>2, FS_Subset, FS_CardinalityType

LEMMA InitRetry == Init => RetryInv
<1> SUFFICES ASSUME Init, NEW m \in Msgs PROVE RetrySound(m)
  BY DEF RetryInv
<1>1. Troubled(m) = {}
  BY DEF Init, WorkerInit, FreeSlot, Troubled, InTrouble, Handling
<1>2. Cardinality(Troubled(m)) = 0
  BY <1>1, FS_EmptySet
<1>3. workStream[m].state # "out" /\ workStream[m].tries = 0 /\ Spent = 0
  BY DEF Init, StoreInit, Spent
<1>4. QED
  BY <1>2, <1>3 DEF RetrySound, Due

\* Replacing one delivery of a message moves its count of troubled handlers by
\* what that delivery was and is.
LEMMA TroubleStep ==
    ASSUME WorkerTypeOK, NEW d \in Slots, NEW rec, Becomes(d, rec),
           rec.msg = delivery[d].msg, NEW m
    PROVE  Cardinality(Troubled(m))' = Cardinality(Troubled(m))
            + (IF m = rec.msg /\ InTrouble(rec) THEN 1 ELSE 0)
            - (IF m = rec.msg /\ InTrouble(delivery[d]) THEN 1 ELSE 0)
<1>1. /\ delivery'[d] = rec
      /\ \A e \in Slots : e # d => delivery'[e] = delivery[e]
  BY DEF WorkerTypeOK, Becomes
<1>2. \A e \in Slots : e # d => (e \in Troubled(m)' <=> e \in Troubled(m))
  BY <1>1 DEF Troubled
<1>3. /\ d \in Troubled(m)' <=> m = rec.msg /\ InTrouble(rec)
      /\ d \in Troubled(m) <=> m = rec.msg /\ InTrouble(delivery[d])
      /\ Troubled(m) \subseteq Slots /\ Troubled(m)' \subseteq Slots
  BY <1>1 DEF Troubled
<1>4. IsFiniteSet(Troubled(m)) /\ Cardinality(Troubled(m)) \in Nat
  BY TroubledFinite
<1>5. CASE d \in Troubled(m)' /\ d \notin Troubled(m)
  <2>1. Troubled(m)' = Troubled(m) \cup {d}
    BY <1>2, <1>3, <1>5
  <2>2. Cardinality(Troubled(m) \cup {d}) = Cardinality(Troubled(m)) + 1
    BY <1>4, <1>5, FS_AddElement
  <2>3. QED
    BY <1>3, <1>4, <1>5, <2>1, <2>2
<1>6. CASE d \notin Troubled(m)' /\ d \in Troubled(m)
  <2>1. Troubled(m)' = Troubled(m) \ {d}
    BY <1>2, <1>3, <1>6
  <2>2. Cardinality(Troubled(m) \ {d}) = Cardinality(Troubled(m)) - 1
    BY <1>4, <1>6, FS_RemoveElement
  <2>3. QED
    BY <1>3, <1>4, <1>6, <2>1, <2>2
<1>7. CASE d \in Troubled(m)' <=> d \in Troubled(m)
  <2>1. Troubled(m)' = Troubled(m)
    BY <1>2, <1>3, <1>7
  <2>2. QED
    BY <1>3, <1>4, <1>7, <2>1
<1>8. QED
  BY <1>5, <1>6, <1>7

\* A step of one delivery that leaves the messages alone or drops its own: the
\* delivery adds no more than the faults of the step pay for.
LEMMA RetryDeliveryStep ==
    ASSUME Typed, RetryInv, NEW d \in Slots, NEW rec, Becomes(d, rec),
           rec.msg = delivery[d].msg, Reporting(rec) => Reporting(delivery[d]),
           faultsLeft' \in 0..MaxFaults, faultsLeft' <= faultsLeft,
           \A m \in Msgs : /\ workStream'[m].tries = workStream[m].tries
                           /\ workStream'[m].state \in {workStream[m].state, "gone"},
           \/ rec.msg \in Msgs /\ workStream'[rec.msg].state = "gone"
           \/ Burden(rec) <= Burden(delivery[d]) + faultsLeft - faultsLeft'
    PROVE  RetryInv'
<1>1. SUFFICES ASSUME NEW m \in Msgs PROVE RetrySound(m)'
  BY DEF RetryInv
<1>2. WorkerTypeOK /\ faultsLeft \in 0..MaxFaults /\ workStream[m].tries \in Nat
  BY DEF Typed, TypeOK, StoreTypeOK, Message
<1>3. /\ delivery'[d] = rec
      /\ \A e \in Slots : e # d => delivery'[e] = delivery[e]
  BY <1>2 DEF WorkerTypeOK, Becomes
<1> DEFINE was == Cardinality(Troubled(m))
           is == Cardinality(Troubled(m))'
<1>4. was \in Nat /\ is = was + (IF m = rec.msg /\ InTrouble(rec) THEN 1 ELSE 0)
                          - (IF m = rec.msg /\ InTrouble(delivery[d]) THEN 1 ELSE 0)
  BY <1>2, TroubledFinite, TroubleStep
<1>5. RetrySound(m)
  BY DEF RetryInv
<1>6. /\ workStream'[m].tries = workStream[m].tries
      /\ workStream'[m].state \in {workStream[m].state, "gone"}
  OBVIOUS
<1>7. CASE m # rec.msg
  <2>1. Attended(m) => Attended(m)'
    BY <1>3, <1>7 DEF Attended
  <2>2. is = was
    BY <1>4, <1>7
  <2> HIDE DEF is, was
  <2>3. MaxFaults - faultsLeft <= MaxFaults - faultsLeft'
    BY <1>2
  <2>4. QED
    BY <1>2, <1>4, <1>5, <1>6, <2>1, <2>2, <2>3 DEF RetrySound, Due, Spent, is, was
<1>8. CASE m = rec.msg /\ workStream'[m].state = "gone"
  BY <1>8 DEF RetrySound
<1>9. CASE m = rec.msg /\ workStream'[m].state # "gone"
  <2>1. Burden(rec) <= Burden(delivery[d]) + faultsLeft - faultsLeft'
    BY <1>9
  <2>2. is + (IF Reporting(rec) THEN 0 ELSE 1)
            <= was + (IF Reporting(delivery[d]) THEN 0 ELSE 1) + faultsLeft - faultsLeft'
    BY <1>2, <1>4, <1>9, <2>1 DEF Burden
  <2>3. \/ Attended(m) => Attended(m)'
        \/ Reporting(delivery[d]) /\ ~Reporting(rec)
    BY <1>3 DEF Attended
  <2>4. Reporting(delivery[d]) => Attended(m)
    BY <1>9 DEF Attended
  <2>5. is <= was + faultsLeft - faultsLeft'
    BY <1>2, <1>4, <2>2
  <2>6. is + (IF Attended(m) THEN 1 ELSE 0)
            <= was + (IF Attended(m)' THEN 1 ELSE 0) + faultsLeft - faultsLeft'
    <3>1. PICK i \in Int, w \in Nat, f \in Int :
            i = is /\ w = was /\ f = faultsLeft - faultsLeft'
      <4>1. is \in Int /\ was \in Nat
        BY <1>4
      <4>2. faultsLeft - faultsLeft' \in Int
        BY <1>2
      <4> HIDE DEF is, was
      <4>3. QED
        BY <4>1, <4>2, Zenon
    <3>2. i <= w + f
      BY <2>5, <3>1, <1>2
    <3>3. Reporting(delivery[d]) /\ ~Reporting(rec) => i + 1 <= w + f
      BY <1>2, <2>2, <3>1
    <3>4. Attended(m) /\ ~Attended(m)' => i + 1 <= w + f
      BY <2>3, <3>3
    <3>5. i + (IF Attended(m) THEN 1 ELSE 0) <= w + (IF Attended(m)' THEN 1 ELSE 0) + f
      BY <3>2, <3>4
    <3>6. QED
      BY <1>2, <3>1, <3>5
  <2> HIDE DEF is, was
  <2>7. QED
    BY <1>2, <1>4, <1>5, <1>6, <1>9, <2>5, <2>6 DEF RetrySound, Due, Spent, is, was
<1>10. QED
  BY <1>7, <1>8, <1>9


\* A remote call that failed is one fault less to come.
LEMMA RemoteSpends ==
    ASSUME NEW applied \in BOOLEAN, NEW err \in Errors, faultsLeft \in 0..MaxFaults,
           Remote(applied, err)
    PROVE  /\ faultsLeft' \in 0..MaxFaults /\ faultsLeft' <= faultsLeft
           /\ err # "none" => faultsLeft - faultsLeft' = 1
           /\ err = "none" => faultsLeft - faultsLeft' = 0 /\ applied
BY DEF Remote

\* A message no step touches stays sound while faults are spent elsewhere.
LEMMA RetryStays ==
    ASSUME Typed, UNCHANGED delivery, faultsLeft' \in 0..MaxFaults, faultsLeft' <= faultsLeft,
           NEW m \in Msgs, RetrySound(m), workStream'[m] = workStream[m]
    PROVE  RetrySound(m)'
<1>1. Troubled(m)' = Troubled(m) /\ (Attended(m)' <=> Attended(m))
  BY DEF Troubled, Attended
<1>2. Cardinality(Troubled(m))' = Cardinality(Troubled(m))
  BY <1>1
<1>3. Cardinality(Troubled(m)) \in Nat /\ faultsLeft \in Nat /\ workStream[m].tries \in Nat
  BY TroubledFinite DEF Typed, TypeOK, StoreTypeOK, Message
<1>4. PICK c \in Nat : c = Cardinality(Troubled(m)) /\ c = Cardinality(Troubled(m))'
  BY <1>2, <1>3
<1>5. QED
  BY <1>1, <1>3, <1>4 DEF RetrySound, Due, Spent

LEMMA GatewayRetry ==
    ASSUME Typed, QueueInv, RetryInv, GatewayNext, UNCHANGED delivery
    PROVE  RetryInv'
<1>1. PICK q \in Requests : RequestStep(q) \/ GatewayCrash(q)
  BY DEF GatewayNext
<1>2. /\ workStream \in [Msgs -> Message] /\ faultsLeft \in 0..MaxFaults
  BY DEF Typed, TypeOK, StoreTypeOK
<1>3. faultsLeft' \in 0..MaxFaults /\ faultsLeft' <= faultsLeft
  <2>1. \/ \E applied \in BOOLEAN, err \in Errors : Remote(applied, err)
        \/ faultsLeft > 0 /\ faultsLeft' = faultsLeft - 1
    <3>1. CASE SubmitPut(q)
      BY <3>1 DEF SubmitPut
    <3>2. CASE RelatePut(q)
      BY <3>2 DEF RelatePut
    <3>3. CASE PublishJob(q)
      BY <3>3 DEF PublishJob
    <3>4. CASE Undo(q)
      BY <3>4 DEF Undo
    <3>5. CASE ReadRun(q)
      BY <3>5 DEF ReadRun
    <3>6. CASE DecisionPut(q)
      BY <3>6 DEF DecisionPut
    <3>7. CASE GatewayCrash(q)
      BY <3>7 DEF GatewayCrash
    <3>8. QED
      BY <1>1, <3>1, <3>2, <3>3, <3>4, <3>5, <3>6, <3>7 DEF RequestStep
  <2>2. QED
    BY <1>2, <2>1, RemoteSpends
<1>4. \/ UNCHANGED workStream
      \/ PublishRun(ReqRun[q], TRUE)
  <2>1. CASE PublishJob(q)
    <3>1. PICK applied \in BOOLEAN : PublishRun(ReqRun[q], applied)
      BY <2>1 DEF PublishJob
    <3>2. CASE applied
      <4>1. applied = TRUE
        BY <3>2
      <4>2. QED
        BY <3>1, <4>1
    <3>3. CASE ~applied
      BY <3>1, <3>3 DEF PublishRun
    <3>4. QED
      BY <3>2, <3>3
  <2>2. CASE SubmitPut(q) \/ RelatePut(q)
    BY <2>2 DEF SubmitPut, RelatePut
  <2>3. CASE Undo(q) \/ ReadRun(q)
    BY <2>3 DEF Undo, ReadRun
  <2>4. CASE DecisionPut(q) \/ GatewayCrash(q)
    BY <2>4 DEF DecisionPut, GatewayCrash
  <2>5. QED
    BY <1>1, <2>1, <2>2, <2>3, <2>4 DEF RequestStep
<1>5. SUFFICES ASSUME NEW m \in Msgs PROVE RetrySound(m)'
  BY DEF RetryInv
<1>6. CASE workStream'[m] = workStream[m]
  BY <1>3, <1>6, RetryStays DEF RetryInv
<1>7. CASE workStream'[m] # workStream[m]
  <2>1. PICK k \in Msgs :
          /\ workStream[k].state = "unused"
          /\ workStream' = [workStream EXCEPT
                ![k] = [state |-> "ready", run |-> ReqRun[q], tries |-> 0]]
    BY <1>4, <1>7 DEF PublishRun
  <2>2. /\ workStream[m].state = "unused"
        /\ workStream'[m].tries = 0 /\ workStream'[m].state = "ready"
    BY <1>2, <1>7, <2>1
  <2>3. Troubled(m)' = {}
    <3>1. ASSUME NEW d \in Slots, delivery[d].msg = m, InTrouble(delivery[d]) PROVE FALSE
      BY <2>2, <3>1 DEF QueueInv, DeliverySound, InTrouble, Handling
    <3>2. QED
      BY <3>1 DEF Troubled
  <2>4. Cardinality(Troubled(m))' = 0
    BY <2>3, FS_EmptySet
  <2>5. Due(m)' = 0
    BY <2>2, <2>4 DEF Due
  <2>6. 0 <= Spent'
    <3>1. \A left \in 0..MaxFaults : 0 <= MaxFaults - left
      OBVIOUS
    <3>2. QED
      BY <1>3, <3>1 DEF Spent
  <2>7. QED
    BY <2>2, <2>5, <2>6 DEF RetrySound
<1>8. QED
  BY <1>6, <1>7

\* A handler that returns leaves at most the missing progress reports behind.
LEMMA ReturnedBurden ==
    ASSUME NEW rec \in DeliveryRecord
    PROVE  /\ ~Reporting(Returned(rec)) /\ ~InTrouble(Returned(rec))
           /\ Burden(Returned(rec)) = 1
           /\ Burden(rec) \in 0..2
           /\ InTrouble(rec) => Burden(rec) >= 1
<1>1. Returned(rec).pc = "done"
  BY DEF Returned, DeliveryRecord
<1>2. ~InTrouble(Returned(rec)) /\ ~Reporting(Returned(rec))
  BY <1>1 DEF InTrouble, Reporting, Handling
<1>3. QED
  BY <1>2 DEF Burden

\* What a message keeps in a step that acknowledges it or leaves it alone.
LEMMA RemoveDrops ==
    ASSUME workStream \in [Msgs -> Message], NEW k \in Msgs, NEW applied \in BOOLEAN,
           RemoveMsg(k, applied)
    PROVE  /\ \A m \in Msgs : /\ workStream'[m].tries = workStream[m].tries
                              /\ workStream'[m].state \in {workStream[m].state, "gone"}
           /\ applied => workStream'[k].state = "gone"
BY DEF RemoveMsg, Message

\* A step that leaves the stream alone and whose delivery stays in the hands of
\* its handler, with a new trouble only if something failed.
LEMMA RetryHandlerStep ==
    ASSUME Typed, RetryInv, UNCHANGED workStream, NEW d \in Slots, NEW rec, Becomes(d, rec),
           rec.msg = delivery[d].msg, rec.progress = delivery[d].progress,
           rec.pc \in Handling <=> delivery[d].pc \in Handling,
           faultsLeft' \in 0..MaxFaults, faultsLeft' <= faultsLeft,
           InTrouble(rec) => InTrouble(delivery[d]) \/ faultsLeft - faultsLeft' = 1
    PROVE  RetryInv'
<1>1. Reporting(rec) <=> Reporting(delivery[d])
  BY DEF Reporting
<1>2. faultsLeft \in 0..MaxFaults
  BY DEF Typed, TypeOK, StoreTypeOK
<1>3. Burden(rec) <= Burden(delivery[d]) + faultsLeft - faultsLeft'
  <2>1. PICK f \in Nat : f = faultsLeft - faultsLeft'
    <3>1. \A a, b \in 0..MaxFaults : b <= a => a - b \in Nat
      OBVIOUS
    <3>2. QED
      BY <1>2, <3>1
  <2>2. InTrouble(rec) => InTrouble(delivery[d]) \/ f = 1
    BY <2>1
  <2>3. Burden(rec) <= Burden(delivery[d]) + f
    BY <1>1, <2>2 DEF Burden
  <2>4. Burden(rec) \in Nat /\ Burden(delivery[d]) \in Nat
    BY DEF Burden
  <2>5. QED
    BY <1>2, <2>1, <2>3, <2>4
<1>4. QED
  BY <1>1, <1>3, RetryDeliveryStep

\* A nak turns the failure of its handler into the redelivery it was due.
LEMMA RetryNak ==
    ASSUME Typed, RetryInv, NEW d \in Slots, NEW rec, Becomes(d, rec),
           rec.msg = delivery[d].msg, rec.msg \in Msgs,
           InTrouble(delivery[d]), ~InTrouble(rec),
           faultsLeft' \in 0..MaxFaults, faultsLeft' <= faultsLeft,
           workStream[rec.msg].state = "out",
           workStream' = [workStream EXCEPT ![rec.msg].state = "ready"]
    PROVE  RetryInv'
<1>1. SUFFICES ASSUME NEW m \in Msgs PROVE RetrySound(m)'
  BY DEF RetryInv
<1>2. /\ WorkerTypeOK /\ faultsLeft \in 0..MaxFaults /\ workStream \in [Msgs -> Message]
      /\ workStream[m].tries \in Nat
  BY DEF Typed, TypeOK, StoreTypeOK, Message
<1>3. /\ delivery'[d] = rec
      /\ \A e \in Slots : e # d => delivery'[e] = delivery[e]
  BY <1>2 DEF WorkerTypeOK, Becomes
<1>4. PICK was \in Nat, is \in Nat :
        /\ was = Cardinality(Troubled(m)) /\ is = Cardinality(Troubled(m))'
        /\ m = rec.msg => is = was - 1
        /\ m # rec.msg => is = was
  <2>1. Cardinality(Troubled(m)) \in Nat
    BY TroubledFinite
  <2>2. Cardinality(Troubled(m))' = Cardinality(Troubled(m))
            - (IF m = rec.msg THEN 1 ELSE 0)
    BY <1>2, <2>1, TroubleStep
  <2>3. m = rec.msg => Cardinality(Troubled(m)) # 0
    <3>1. m = rec.msg => d \in Troubled(m)
      BY DEF Troubled
    <3>2. QED
      BY <3>1, TroubledFinite, FS_EmptySet
  <2>4. QED
    BY <2>1, <2>2, <2>3
<1>5. RetrySound(m) /\ \A a, b \in 0..MaxFaults : b <= a => MaxFaults - a <= MaxFaults - b
  BY DEF RetryInv
<1>6. PICK s \in Int, t \in Int : s = Spent /\ t = Spent' /\ s <= t
  BY <1>2, <1>5 DEF Spent
<1>7. CASE m # rec.msg
  <2>1. workStream'[m] = workStream[m] /\ (Attended(m) => Attended(m)')
    BY <1>2, <1>3, <1>7 DEF Attended
  <2>2. QED
    BY <1>2, <1>4, <1>5, <1>6, <1>7, <2>1 DEF RetrySound, Due
<1>8. CASE m = rec.msg
  <2>1. workStream'[m].state = "ready" /\ workStream'[m].tries = workStream[m].tries
    BY <1>2, <1>8 DEF Message
  <2>2. workStream[m].tries + was <= s + 1
    BY <1>2, <1>4, <1>5, <1>6, <1>8 DEF RetrySound, Due
  <2>3. QED
    BY <1>2, <1>4, <1>6, <1>8, <2>1, <2>2 DEF RetrySound, Due
<1>9. QED
  BY <1>7, <1>8

LEMMA HandlerRetry ==
    ASSUME Typed, RetryInv, NEW d \in Slots, HandlerStep(d)
    PROVE  RetryInv'
<1> DEFINE rec == delivery[d]
<1>1. /\ rec \in DeliveryRecord /\ WellFormed(rec)
      /\ workStream \in [Msgs -> Message] /\ faultsLeft \in 0..MaxFaults
  BY DEF Typed, WellFormed, TypeOK, StoreTypeOK
<1>2. /\ ~Reporting(Returned(rec)) /\ Burden(Returned(rec)) = 1 /\ Returned(rec).msg = rec.msg
      /\ InTrouble(rec) => Burden(rec) >= 1
      /\ Burden(rec) \in Nat /\ ~InTrouble(Returned(rec))
  <2>1. Returned(rec).msg = rec.msg
    BY <1>1 DEF Returned, DeliveryRecord
  <2>2. Burden(rec) \in 0..2
    BY <1>1, ReturnedBurden
  <2>3. QED
    BY <1>1, <2>1, <2>2, ReturnedBurden
\* A remote put or read, after which the handler goes on to pc.
<1>3. ASSUME NEW applied \in BOOLEAN, NEW err \in Errors, Remote(applied, err),
             rec.pc \in Handling, NEW pc \in Handling, NEW h,
             UNCHANGED workStream,
             \/ Becomes(d, [rec EXCEPT !.pc = pc]) /\ h = rec.heartbeat
             \/ Becomes(d, [rec EXCEPT !.heartbeat = h, !.pc = pc]),
             \/ err # "none"
             \/ InTrouble(rec)
             \/ pc \notin {"failed", "crashed", "closing"} /\ h \in {"off", "idle", rec.heartbeat}
      PROVE  RetryInv'
  <2>1. /\ faultsLeft' \in 0..MaxFaults /\ faultsLeft' <= faultsLeft
        /\ err # "none" => faultsLeft - faultsLeft' = 1
    BY <1>1, <1>3, RemoteSpends
  <2>2. PICK next :
          /\ Becomes(d, next) /\ next.msg = rec.msg /\ next.progress = rec.progress
          /\ next.pc = pc /\ next.heartbeat = h
    <3>1. /\ [rec EXCEPT !.heartbeat = h, !.pc = pc].msg = rec.msg
          /\ [rec EXCEPT !.heartbeat = h, !.pc = pc].progress = rec.progress
          /\ [rec EXCEPT !.heartbeat = h, !.pc = pc].pc = pc
          /\ [rec EXCEPT !.heartbeat = h, !.pc = pc].heartbeat = h
          /\ [rec EXCEPT !.pc = pc].msg = rec.msg
          /\ [rec EXCEPT !.pc = pc].progress = rec.progress
          /\ [rec EXCEPT !.pc = pc].pc = pc
          /\ [rec EXCEPT !.pc = pc].heartbeat = rec.heartbeat
      BY <1>1 DEF DeliveryRecord
    <3>2. CASE Becomes(d, [rec EXCEPT !.pc = pc]) /\ h = rec.heartbeat
      BY <3>1, <3>2, Zenon
    <3>3. CASE Becomes(d, [rec EXCEPT !.heartbeat = h, !.pc = pc])
      BY <3>1, <3>3, Zenon
    <3>4. QED
      BY <1>3, <3>2, <3>3
  <2>3. InTrouble(next) => InTrouble(rec) \/ err # "none"
    BY <1>3, <2>2 DEF InTrouble
  <2>4. QED
    BY <1>3, <2>1, <2>2, <2>3, RetryHandlerStep
<1>4. CASE DiscardInvalid(d)
  <2>1. PICK applied \in BOOLEAN, err \in Errors :
            Remote(applied, err) /\ RemoveMsg(rec.msg, applied)
    BY <1>4 DEF DiscardInvalid
  <2>2. Becomes(d, Returned(rec)) /\ rec.msg \in Msgs
    BY <1>1, <1>4 DEF DiscardInvalid, WellFormed, Handling
  <2>3. /\ \A m \in Msgs : /\ workStream'[m].tries = workStream[m].tries
                           /\ workStream'[m].state \in {workStream[m].state, "gone"}
        /\ applied => workStream'[rec.msg].state = "gone"
    BY <1>1, <2>1, <2>2, RemoveDrops
  <2>4. /\ faultsLeft' \in 0..MaxFaults /\ faultsLeft' <= faultsLeft
        /\ applied \/ faultsLeft - faultsLeft' = 1
    BY <1>1, <2>1, RemoteSpends
  <2>5. CASE faultsLeft - faultsLeft' = 1
    <3>1. 1 <= Burden(rec) + faultsLeft - faultsLeft'
      <4>1. \A b \in Nat, x, y \in 0..MaxFaults : x - y = 1 => 1 <= b + x - y
        OBVIOUS
      <4>2. QED
        BY <1>1, <1>2, <2>4, <2>5, <4>1
    <3>2. QED
      BY <1>2, <2>2, <2>3, <2>4, <3>1, RetryDeliveryStep
  <2>6. CASE applied
    BY <1>2, <2>2, <2>3, <2>4, <2>6, RetryDeliveryStep
  <2>7. QED
    BY <2>4, <2>5, <2>6
<1>5. CASE Ack(d)
  <2>1. rec.msg \in Msgs /\ rec.pc \in {"settled", "closing"}
    BY <1>1, <1>5 DEF Ack, WellFormed, Handling
  <2>2. CASE /\ faultsLeft > 0 /\ faultsLeft' = faultsLeft - 1
             /\ Becomes(d, Returned(rec)) /\ UNCHANGED workStream
    <3>1. /\ faultsLeft' \in 0..MaxFaults /\ faultsLeft' <= faultsLeft
          /\ 1 <= Burden(rec) + faultsLeft - faultsLeft'
      BY <1>1, <1>2, <2>2
    <3>2. QED
      BY <1>1, <1>2, <2>2, <3>1, RetryDeliveryStep
  <2>3. ASSUME NEW applied \in BOOLEAN, NEW err \in Errors, Remote(applied, err),
               RemoveMsg(rec.msg, applied), NEW next, Becomes(d, next),
               next = IF err # "none" /\ rec.pc = "settled"
                      THEN [rec EXCEPT !.pc = ErrorBranch(err)] ELSE Returned(rec)
        PROVE  RetryInv'
    <3>1. /\ \A m \in Msgs : /\ workStream'[m].tries = workStream[m].tries
                             /\ workStream'[m].state \in {workStream[m].state, "gone"}
          /\ applied => workStream'[rec.msg].state = "gone"
      BY <1>1, <2>1, <2>3, RemoveDrops
    <3>2. /\ faultsLeft' \in 0..MaxFaults /\ faultsLeft' <= faultsLeft
          /\ err # "none" => faultsLeft - faultsLeft' = 1
          /\ err = "none" => applied
      BY <1>1, <2>3, RemoteSpends
    <3>3. CASE err # "none" /\ rec.pc = "settled"
      <4>1. /\ next.msg = rec.msg /\ next.progress = rec.progress
            /\ next.pc \in {"failed", "crashed"}
        BY <1>1, <2>3, <3>3 DEF DeliveryRecord, ErrorBranch
      <4>2. (Reporting(next) <=> Reporting(rec)) /\ InTrouble(next)
        BY <3>3, <4>1 DEF Reporting, Handling, InTrouble
      <4>3. Burden(next) <= Burden(rec) + 1
        BY <4>2 DEF Burden
      <4>4. Burden(next) <= Burden(rec) + faultsLeft - faultsLeft'
        BY <1>1, <1>2, <3>2, <3>3, <4>3
      <4>5. QED
        BY <2>3, <3>1, <3>2, <4>1, <4>2, <4>4, RetryDeliveryStep
    <3>4. CASE next = Returned(rec) /\ err # "none"
      <4>1. Burden(next) <= Burden(rec) + faultsLeft - faultsLeft'
        <5>1. \A b \in Nat, x, y \in 0..MaxFaults : x - y = 1 => 1 <= b + x - y
          OBVIOUS
        <5>2. QED
          BY <1>1, <1>2, <3>2, <3>4, <5>1
      <4>2. QED
        BY <1>2, <2>3, <3>1, <3>2, <3>4, <4>1, RetryDeliveryStep
    <3>5. CASE next = Returned(rec) /\ err = "none"
      BY <1>2, <2>1, <2>3, <3>1, <3>2, <3>5, RetryDeliveryStep
    <3>6. QED
      BY <2>3, <3>3, <3>4, <3>5
  <2>4. QED
    BY <1>5, <2>2, <2>3 DEF Ack
<1>6. CASE RecordFailure(d)
  <2>1. PICK applied \in BOOLEAN, err \in Errors :
            /\ Remote(applied, err)
            /\ Becomes(d, [rec EXCEPT !.pc = IF err = "none" THEN "closing" ELSE "failed"])
    BY <1>6 DEF RecordFailure
  <2>2. rec.pc = "crashed" /\ UNCHANGED workStream
    BY <1>6 DEF RecordFailure
  <2>3. QED
    BY <1>3, <2>1, <2>2 DEF Handling, InTrouble
<1>7. CASE ReadSnapshot(d)
  <2>1. PICK err \in Errors :
            /\ Remote(TRUE, err)
            /\ \E c, a : Becomes(d, [rec EXCEPT !.pc = "resolve", !.status = FreshStatus,
                                                !.cancel = c, !.approval = a])
    BY <1>7 DEF ReadSnapshot
  <2>2. PICK next : /\ Becomes(d, next) /\ next.msg = rec.msg /\ next.progress = rec.progress
                    /\ next.pc = "resolve" /\ next.heartbeat = rec.heartbeat
    <3>1. PICK c, a : Becomes(d, [rec EXCEPT !.pc = "resolve", !.status = FreshStatus,
                                             !.cancel = c, !.approval = a])
      BY <2>1
    <3>2. /\ [rec EXCEPT !.pc = "resolve", !.status = FreshStatus,
                         !.cancel = c, !.approval = a].msg = rec.msg
          /\ [rec EXCEPT !.pc = "resolve", !.status = FreshStatus,
                         !.cancel = c, !.approval = a].progress = rec.progress
          /\ [rec EXCEPT !.pc = "resolve", !.status = FreshStatus,
                         !.cancel = c, !.approval = a].pc = "resolve"
          /\ [rec EXCEPT !.pc = "resolve", !.status = FreshStatus,
                         !.cancel = c, !.approval = a].heartbeat = rec.heartbeat
      BY <1>1 DEF DeliveryRecord
    <3>3. QED
      BY <3>1, <3>2, Zenon
  <2>3. faultsLeft' \in 0..MaxFaults /\ faultsLeft' <= faultsLeft
    BY <1>1, <2>1, RemoteSpends
  <2>4. rec.pc = "fetched" /\ UNCHANGED workStream
    BY <1>7 DEF ReadSnapshot
  <2>5. InTrouble(next) => InTrouble(rec)
    BY <2>2, <2>4 DEF InTrouble, Handling
  <2>6. QED
    BY <2>2, <2>3, <2>4, <2>5, RetryHandlerStep DEF Handling
<1>8. CASE FailResolve(d)
  <2>1. PICK applied \in BOOLEAN, err \in Errors :
            /\ Remote(applied, err)
            /\ Becomes(d, [rec EXCEPT !.pc = IF err = "none" THEN "settled" ELSE ErrorBranch(err)])
    BY <1>8 DEF FailResolve
  <2>2. rec.pc = "resolve" /\ UNCHANGED workStream
    BY <1>8 DEF FailResolve
  <2>3. QED
    BY <1>3, <2>1, <2>2 DEF Handling, ErrorBranch
<1>9. CASE TakeOwnership(d)
  <2>1. PICK applied \in BOOLEAN, err \in Errors :
            /\ Remote(applied, err)
            /\ Becomes(d, [rec EXCEPT !.heartbeat = "idle",
                                !.pc = IF err = "none" THEN "start" ELSE ErrorBranch(err)])
    BY <1>9 DEF TakeOwnership
  <2>2. rec.pc = "resolve" /\ UNCHANGED workStream
    BY <1>9 DEF TakeOwnership
  <2>3. QED
    BY <1>3, <2>1, <2>2 DEF Handling, ErrorBranch
<1>10. CASE Finalize(d)
  <2>1. rec.pc = "final" /\ UNCHANGED workStream
    BY <1>10 DEF Finalize
  <2>2. CASE /\ rec.heartbeat \in {"NatsError", "Exception"} /\ UNCHANGED faultsLeft
             /\ Becomes(d, [rec EXCEPT !.heartbeat = "off", !.pc = ErrorBranch(rec.heartbeat)])
    <3>1. InTrouble(rec)
      BY <2>1, <2>2 DEF InTrouble, Handling
    <3>2. PICK next : /\ Becomes(d, next) /\ next.msg = rec.msg
                      /\ next.progress = rec.progress /\ next.pc \in {"failed", "crashed"}
      <4>1. \A x : /\ [rec EXCEPT !.heartbeat = "off", !.pc = x].msg = rec.msg
                   /\ [rec EXCEPT !.heartbeat = "off", !.pc = x].progress = rec.progress
                   /\ [rec EXCEPT !.heartbeat = "off", !.pc = x].pc = x
        BY <1>1 DEF DeliveryRecord
      <4>2. ErrorBranch(rec.heartbeat) \in {"failed", "crashed"}
        BY DEF ErrorBranch
      <4>3. QED
        BY <2>2, <4>1, <4>2
    <3>3. QED
      BY <1>1, <2>1, <2>2, <3>1, <3>2, RetryHandlerStep DEF Handling
  <2>3. ASSUME NEW applied \in BOOLEAN, NEW err \in Errors, Remote(applied, err),
               Becomes(d, [rec EXCEPT !.heartbeat = "off",
                               !.pc = IF err = "none" THEN "settled" ELSE ErrorBranch(err)])
        PROVE  RetryInv'
    BY <1>3, <2>1, <2>3 DEF Handling, ErrorBranch
  <2>4. QED
    BY <1>10, <2>2, <2>3 DEF Finalize
<1>11. CASE Nak(d)
  <2>1. rec.msg \in Msgs /\ InTrouble(rec) /\ Becomes(d, Returned(rec))
    BY <1>1, <1>11 DEF Nak, WellFormed, Handling, InTrouble
  <2>2. PICK applied \in BOOLEAN, err \in Errors :
          /\ Remote(applied, err)
          /\ workStream' = IF applied /\ workStream[rec.msg].state = "out"
                           THEN [workStream EXCEPT ![rec.msg].state = "ready"]
                           ELSE workStream
    BY <1>11 DEF Nak
  <2>3. faultsLeft' \in 0..MaxFaults /\ faultsLeft' <= faultsLeft
    BY <1>1, <2>2, RemoteSpends
  <2>4. CASE UNCHANGED workStream
    <3>1. Burden(Returned(rec)) <= Burden(rec) + faultsLeft - faultsLeft'
      <4>1. \A b \in Nat, x, y \in 0..MaxFaults : 1 <= b /\ y <= x => 1 <= b + x - y
        OBVIOUS
      <4>2. QED
        BY <1>1, <1>2, <2>1, <2>3, <4>1
    <3>2. QED
      BY <1>1, <1>2, <2>1, <2>3, <2>4, <3>1, RetryDeliveryStep
  <2>5. CASE /\ workStream[rec.msg].state = "out"
             /\ workStream' = [workStream EXCEPT ![rec.msg].state = "ready"]
    BY <1>2, <2>1, <2>3, <2>5, RetryNak
  <2>6. QED
    BY <2>2, <2>4, <2>5
<1>12. QED
  BY <1>4, <1>5, <1>6, <1>7, <1>8, <1>9, <1>10, <1>11 DEF HandlerStep

LEMMA BackgroundRetry ==
    ASSUME Typed, RetryInv, NEW d \in Slots,
           BackgroundStep(d) \/ EngineStep(d) \/ EngineEvent(d) \/ LoseProgress(d)
    PROVE  RetryInv'
<1> DEFINE rec == delivery[d]
<1>1. rec \in DeliveryRecord /\ faultsLeft \in 0..MaxFaults
  BY DEF Typed, WellFormed, TypeOK, StoreTypeOK
\* A step after which the delivery is in the same hands, with no new trouble.
<1>2. ASSUME NEW next, Becomes(d, next), UNCHANGED workStream,
             next.msg = rec.msg, next.progress = rec.progress,
             next.pc = rec.pc \/ {next.pc, rec.pc} \subseteq {"start", "engine", "final"},
             faultsLeft' \in 0..MaxFaults, faultsLeft' <= faultsLeft,
             \/ next.heartbeat \in {rec.heartbeat, "idle", "read"}
             \/ faultsLeft - faultsLeft' = 1
      PROVE  RetryInv'
  <2>1. next.pc \in Handling <=> rec.pc \in Handling
    BY <1>2 DEF Handling
  <2>2. InTrouble(next) => InTrouble(rec) \/ faultsLeft - faultsLeft' = 1
    BY <1>2, <2>1 DEF InTrouble
  <2>3. QED
    BY <1>2, <2>1, <2>2, RetryHandlerStep
<1>3. CASE HeartbeatRead(d)
  <2>1. PICK err \in Errors, c \in BOOLEAN :
            /\ Remote(TRUE, err)
            /\ Becomes(d, [rec EXCEPT !.heartbeat = "read", !.cancel = c,
                                      !.status = StatusAfterBeat(d, c)])
    BY <1>3 DEF HeartbeatRead
  <2> DEFINE next == [rec EXCEPT !.heartbeat = "read", !.cancel = c,
                                 !.status = StatusAfterBeat(d, c)]
  <2>2. /\ next.msg = rec.msg /\ next.progress = rec.progress
        /\ next.pc = rec.pc /\ next.heartbeat = "read"
    BY <1>1 DEF DeliveryRecord
  <2>3. /\ faultsLeft' \in 0..MaxFaults /\ faultsLeft' <= faultsLeft
        /\ UNCHANGED workStream
    BY <1>1, <1>3, <2>1, RemoteSpends DEF HeartbeatRead
  <2>4. Becomes(d, next)
    BY <2>1
  <2> HIDE DEF next
  <2>5. QED
    BY <1>2, <2>2, <2>3, <2>4
<1>4. CASE HeartbeatPut(d)
  <2>1. PICK applied \in BOOLEAN, err \in Errors :
            /\ Remote(applied, err)
            /\ Becomes(d, [rec EXCEPT !.heartbeat = IF err = "none" THEN "idle" ELSE err])
    BY <1>4 DEF HeartbeatPut
  <2> DEFINE h == IF err = "none" THEN "idle" ELSE err
             next == [rec EXCEPT !.heartbeat = h]
  <2>2. /\ next.msg = rec.msg /\ next.progress = rec.progress
        /\ next.pc = rec.pc /\ next.heartbeat = h
    BY <1>1 DEF DeliveryRecord
  <2>3. /\ faultsLeft' \in 0..MaxFaults /\ faultsLeft' <= faultsLeft
        /\ h = "idle" \/ faultsLeft - faultsLeft' = 1
        /\ UNCHANGED workStream
    BY <1>1, <1>4, <2>1, RemoteSpends DEF HeartbeatPut
  <2>4. Becomes(d, next)
    BY <2>1
  <2> HIDE DEF h, next
  <2>5. QED
    BY <1>2, <2>2, <2>3, <2>4
<1>5. CASE Flush(d)
  <2>1. PICK applied \in BOOLEAN, err \in Errors, f \in {"idle", "scheduled", "stale"} :
            /\ Remote(applied, err)
            /\ Becomes(d, [rec EXCEPT !.flush = f])
    BY <1>5 DEF Flush
  <2> DEFINE next == [rec EXCEPT !.flush = f]
  <2>2. /\ next.msg = rec.msg /\ next.progress = rec.progress
        /\ next.pc = rec.pc /\ next.heartbeat = rec.heartbeat
    BY <1>1 DEF DeliveryRecord
  <2>3. /\ faultsLeft' \in 0..MaxFaults /\ faultsLeft' <= faultsLeft
        /\ UNCHANGED workStream
    BY <1>1, <1>5, <2>1, RemoteSpends DEF Flush
  <2>4. Becomes(d, next)
    BY <2>1
  <2> HIDE DEF next
  <2>5. QED
    BY <1>2, <2>2, <2>3, <2>4
<1>6. CASE EngineStep(d) \/ EngineEvent(d)
  <2>1. PICK pc \in {"engine", "final"}, s \in Statuses, f \in {"scheduled", "dirty"} :
            \/ Becomes(d, [rec EXCEPT !.pc = pc, !.status = s, !.flush = f])
            \/ Becomes(d, [rec EXCEPT !.flush = f])
    BY <1>6 DEF EngineStep, EngineStart, EngineComplete, EngineCancelled, EngineFail,
                EngineEnd, EngineEvent, MarkedDirty, Statuses, Terminal
  <2>2. rec.pc \in {"start", "engine"} /\ UNCHANGED <<workStream, faultsLeft>>
    BY <1>6 DEF EngineStep, EngineStart, EngineComplete, EngineCancelled, EngineFail,
                EngineEnd, EngineEvent, storeVars
  <2>3. /\ [rec EXCEPT !.pc = pc, !.status = s, !.flush = f].msg = rec.msg
        /\ [rec EXCEPT !.pc = pc, !.status = s, !.flush = f].progress = rec.progress
        /\ [rec EXCEPT !.pc = pc, !.status = s, !.flush = f].pc = pc
        /\ [rec EXCEPT !.pc = pc, !.status = s, !.flush = f].heartbeat = rec.heartbeat
        /\ [rec EXCEPT !.flush = f].msg = rec.msg
        /\ [rec EXCEPT !.flush = f].progress = rec.progress
        /\ [rec EXCEPT !.flush = f].pc = rec.pc
        /\ [rec EXCEPT !.flush = f].heartbeat = rec.heartbeat
    BY <1>1 DEF DeliveryRecord
  <2>4. PICK next : /\ Becomes(d, next) /\ next.msg = rec.msg /\ next.progress = rec.progress
                    /\ next.pc \in {pc, rec.pc} /\ next.heartbeat = rec.heartbeat
    <3>1. CASE Becomes(d, [rec EXCEPT !.pc = pc, !.status = s, !.flush = f])
      BY <2>3, <3>1, Zenon
    <3>2. CASE Becomes(d, [rec EXCEPT !.flush = f])
      BY <2>3, <3>2, Zenon
    <3>3. QED
      BY <2>1, <3>1, <3>2
  <2>5. {next.pc, rec.pc} \subseteq {"start", "engine", "final"}
    BY <2>1, <2>2, <2>4
  <2>6. faultsLeft' \in 0..MaxFaults /\ faultsLeft' <= faultsLeft
    BY <1>1, <2>2
  <2>7. QED
    BY <1>2, <2>2, <2>4, <2>5, <2>6
<1>7. CASE LoseProgress(d)
  <2>1. /\ faultsLeft > 0 /\ faultsLeft' = faultsLeft - 1 /\ UNCHANGED workStream
        /\ Becomes(d, [rec EXCEPT !.progress = FALSE])
    BY <1>7 DEF LoseProgress
  <2> DEFINE next == [rec EXCEPT !.progress = FALSE]
  <2>2. next.msg = rec.msg /\ ~next.progress /\ next.pc = rec.pc /\ next.heartbeat = rec.heartbeat
    BY <1>1 DEF DeliveryRecord
  <2>3. Becomes(d, next)
    BY <2>1
  <2> HIDE DEF next
  <2>4. ~Reporting(next) /\ (InTrouble(next) <=> InTrouble(rec))
    BY <2>2 DEF Reporting, InTrouble
  <2>5. Burden(next) <= Burden(rec) + 1
    BY <2>4 DEF Burden
  <2>6. faultsLeft' \in 0..MaxFaults /\ faultsLeft' <= faultsLeft /\ faultsLeft - faultsLeft' = 1
    BY <1>1, <2>1
  <2>7. Burden(next) <= Burden(rec) + faultsLeft - faultsLeft'
    <3>1. \A a, b \in Int, x, y \in 0..MaxFaults : x - y = 1 /\ a <= b + 1 => a <= b + x - y
      OBVIOUS
    <3>2. Burden(next) \in Int /\ Burden(rec) \in Int
      BY DEF Burden
    <3>3. QED
      BY <1>1, <2>5, <2>6, <3>1, <3>2
  <2>8. QED
    BY <2>1, <2>2, <2>3, <2>4, <2>6, <2>7, RetryDeliveryStep
<1>8. QED
  BY <1>3, <1>4, <1>5, <1>6, <1>7 DEF BackgroundStep

LEMMA WorkerRetry ==
    ASSUME Typed, RetryInv, WorkerNext
    PROVE  RetryInv'
<1>1. /\ delivery \in [Slots -> DeliveryRecord] /\ workStream \in [Msgs -> Message]
      /\ faultsLeft \in 0..MaxFaults
  BY DEF Typed, TypeOK, WorkerTypeOK, StoreTypeOK
<1>2. ASSUME NEW d \in Slots, NEW w \in Workers, NEW k \in Msgs, Fetch(d, w, k)
      PROVE  RetryInv'
  <2>1. /\ delivery[d].pc = "free" /\ Deliverable(k) /\ Becomes(d, Fetched(w, k))
        /\ workStream' = [workStream EXCEPT ![k].state = "out", ![k].tries = @ + 1]
        /\ UNCHANGED faultsLeft
    BY <1>2 DEF Fetch
  <2>2. /\ delivery'[d] = Fetched(w, k)
        /\ \A e \in Slots : e # d => delivery'[e] = delivery[e]
    BY <1>1, <2>1 DEF Becomes
  <2>3. /\ Fetched(w, k).pc = "fetched" /\ Fetched(w, k).heartbeat = "off"
        /\ Fetched(w, k).msg = k /\ Fetched(w, k).progress
    BY DEF Fetched, FreeSlot
  <2>4. ~InTrouble(delivery[d]) /\ ~InTrouble(Fetched(w, k))
        /\ ~Reporting(delivery[d]) /\ Reporting(Fetched(w, k))
    BY <2>1, <2>3 DEF InTrouble, Reporting, Handling
  <2>5. SUFFICES ASSUME NEW m \in Msgs PROVE RetrySound(m)'
    BY DEF RetryInv
  <2>6. Troubled(m)' = Troubled(m) /\ (Attended(m) => Attended(m)')
    BY <2>2, <2>4 DEF Troubled, Attended
  <2>7. PICK c \in Nat : c = Cardinality(Troubled(m)) /\ c = Cardinality(Troubled(m))'
    BY <2>6, TroubledFinite
  <2>8. RetrySound(m) /\ workStream[m].tries \in Nat
    BY <1>1 DEF RetryInv, Message
  <2>9. PICK s \in Int : s = Spent /\ s = Spent'
    BY <1>1, <2>1 DEF Spent
  <2>10. CASE m # k
    <3>1. workStream'[m] = workStream[m]
      BY <1>1, <2>1, <2>10
    <3>2. QED
      BY <2>6, <2>7, <2>8, <2>9, <3>1 DEF RetrySound, Due
  <2>11. CASE m = k
    <3>1. workStream[m].state = "ready"
      BY <2>1, <2>11 DEF Deliverable
    <3>2. workStream'[m].state = "out" /\ workStream'[m].tries = workStream[m].tries + 1
      BY <1>1, <2>1, <2>11 DEF Message
    <3>3. Attended(m)'
      BY <2>2, <2>3, <2>4, <2>11 DEF Attended
    <3>4. workStream[m].tries + c <= s
      BY <2>7, <2>8, <2>9, <3>1 DEF RetrySound, Due
    <3>5. QED
      BY <2>7, <2>8, <2>9, <3>2, <3>3, <3>4 DEF RetrySound, Due
  <2>12. QED
    BY <2>10, <2>11
<1>3. ASSUME NEW w \in Workers, WorkerCrash(w)
      PROVE  RetryInv'
  <2>1. UNCHANGED workStream /\ faultsLeft > 0 /\ faultsLeft' = faultsLeft - 1
    BY <1>3 DEF WorkerCrash
  <2>2. \A d \in Slots : \/ delivery'[d] = delivery[d]
                         \/ delivery'[d].pc = "dead"
    <3>1. ASSUME NEW d \in Slots
          PROVE  [delivery[d] EXCEPT !.pc = "dead", !.heartbeat = "off",
                                     !.flush = "idle", !.progress = FALSE].pc = "dead"
      BY <1>1 DEF DeliveryRecord
    <3>2. QED
      BY <1>3, <3>1 DEF WorkerCrash
  <2>3. SUFFICES ASSUME NEW m \in Msgs PROVE RetrySound(m)'
    BY DEF RetryInv
  <2>4. Troubled(m)' \subseteq Troubled(m)
    BY <2>2 DEF Troubled, InTrouble, Handling
  <2>5. PICK was \in Nat, is \in Nat :
          was = Cardinality(Troubled(m)) /\ is = Cardinality(Troubled(m))' /\ is <= was
    <3>1. IsFiniteSet(Troubled(m)) /\ Cardinality(Troubled(m)) \in Nat
      BY TroubledFinite
    <3>2. /\ IsFiniteSet(Troubled(m)')
          /\ Cardinality(Troubled(m)') <= Cardinality(Troubled(m))
      BY <2>4, <3>1, FS_Subset
    <3>3. Cardinality(Troubled(m)') \in Nat
      BY <3>2, FS_CardinalityType
    <3>4. QED
      BY <3>1, <3>2, <3>3
  <2>6. RetrySound(m) /\ workStream[m].tries \in Nat
    BY <1>1 DEF RetryInv, Message
  <2>7. PICK s \in Int, t \in Int : s = Spent /\ t = Spent' /\ t = s + 1
    BY <1>1, <2>1 DEF Spent
  <2>8. QED
    BY <2>1, <2>5, <2>6, <2>7 DEF RetrySound, Due
<1>4. ASSUME NEW k \in Msgs, AckWaitExpires(k)
      PROVE  RetryInv'
  <2>1. SUFFICES ASSUME NEW m \in Msgs PROVE RetrySound(m)'
    BY DEF RetryInv
  <2>2. /\ UNCHANGED <<faultsLeft, delivery>> /\ workStream[k].state = "out"
        /\ workStream' = [workStream EXCEPT ![k].state = "ready"]
    BY <1>4 DEF AckWaitExpires
  <2>3. RetrySound(m) /\ workStream[m].tries \in Nat
    BY <1>1 DEF RetryInv, Message
  <2>4. CASE m # k
    BY <1>1, <2>2, <2>3, <2>4, RetryStays
  <2>5. CASE m = k
    <3>1. ~Attended(m)
      BY <1>4, <2>5 DEF AckWaitExpires, Attended, Reporting
    <3>2. workStream'[m].state = "ready" /\ workStream'[m].tries = workStream[m].tries
      BY <1>1, <2>2, <2>5 DEF Message
    <3>3. Troubled(m)' = Troubled(m)
      BY <2>2 DEF Troubled
    <3>4. PICK c \in Nat : c = Cardinality(Troubled(m)) /\ c = Cardinality(Troubled(m))'
      BY <3>3, TroubledFinite
    <3>5. PICK s \in Int : s = Spent /\ s = Spent'
      BY <1>1, <2>2 DEF Spent
    <3>6. QED
      BY <2>2, <2>3, <2>5, <3>1, <3>2, <3>4, <3>5 DEF RetrySound, Due
  <2>6. QED
    BY <2>4, <2>5
<1>5. QED
  BY <1>2, <1>3, <1>4, HandlerRetry, BackgroundRetry DEF WorkerNext

LEMMA RetryInvariant == Spec => []RetryInv
<1>1. Typed /\ QueueInv /\ RetryInv /\ [Next]_vars => RetryInv'
  <2>1. ASSUME Typed, QueueInv, RetryInv, Next PROVE RetryInv'
    BY <2>1, GatewayRetry, WorkerRetry DEF Next
  <2>2. ASSUME Typed, RetryInv, UNCHANGED vars PROVE RetryInv'
    <3>1. faultsLeft' \in 0..MaxFaults /\ faultsLeft' <= faultsLeft
      BY <2>2 DEF vars, Typed, TypeOK, StoreTypeOK
    <3>2. QED
      BY <2>2, <3>1, RetryStays DEF vars, RetryInv
  <2>3. QED
    BY <2>1, <2>2
<1>2. QED
  BY <1>1, InitRetry, TypeCorrect, QueueInvariant, PTL DEF Spec

\* A message waits for its n-th redelivery only after n calls have failed or
\* processes died: a run whose consumer allows more deliveries (worker.py,
\* consumer_max_deliver) than there are failures is never left in the queue
\* with its deliveries used up.
THEOREM RetriesArePaidFor == Spec => []RetriesNeedFaults
<1>1. Typed /\ RetryInv => RetriesNeedFaults
  <2>1. SUFFICES ASSUME Typed, RetryInv, NEW m \in Msgs, workStream[m].state = "ready"
                 PROVE  workStream[m].tries <= Spent
    BY DEF RetriesNeedFaults
  <2>2. PICK c \in Nat : c = Cardinality(Troubled(m))
    BY TroubledFinite
  <2>3. workStream[m].tries \in Nat /\ faultsLeft \in 0..MaxFaults
    BY <2>1 DEF Typed, TypeOK, StoreTypeOK, Message
  <2>4. PICK s \in Int : s = Spent
    BY <2>3 DEF Spent
  <2>5. QED
    BY <2>1, <2>2, <2>3, <2>4 DEF RetryInv, RetrySound, Due
<1>2. QED
  BY <1>1, TypeCorrect, RetryInvariant, PTL

=============================================================================
