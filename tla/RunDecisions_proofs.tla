------------------------ MODULE RunDecisions_proofs -------------------------
(***************************************************************************)
(* What the requests' decisions guarantee, for every instance of           *)
(* RunSystem: no run is cancelled unasked, no run that needs approval is   *)
(* queued without it, and, while nothing has failed, no status follows a   *)
(* terminal one except a cancel's.                                         *)
(***************************************************************************)
EXTENDS RunSystem_proofs

USE StoreAssumption, GatewayAssumption, WorkerAssumption

-----------------------------------------------------------------------------
(* Cancellation.  The inductive invariant adds to CancelOnlyIfAsked that   *)
(* what a request read and may write back, or still holds for its rollback, *)
(* is justified too.                                                       *)

DeliveryJustified(rec) ==
    rec.cancel \/ rec.status \in {"CANCELLING", "CANCELLED"} => StopRequested(rec.run)

RequestJustified(q) ==
    /\ CancelRequested(request[q].seen) => StopRequested(ReqRun[q])
    /\ request[q].pc = "put" => request[q].seen.status \notin Terminal \cup {"absent"}

CancelInv ==
    /\ \A r \in Runs : CancelRequested(runsKv[r]) => StopRequested(r)
    /\ \A d \in Slots : DeliveryJustified(delivery[d])
    /\ \A q \in Requests : RequestJustified(q)

LEMMA InitCancel == Init => CancelInv
BY DEF Init, StoreInit, GatewayInit, WorkerInit, FreeSlot, CancelInv, DeliveryJustified,
       RequestJustified, CancelRequested, Absent, Snap

\* A request that is done stays as it is.
LEMMA StopStays ==
    ASSUME Typed, GatewayNext, NEW r, StopRequested(r)
    PROVE  StopRequested(r)'
<1>1. PICK q \in Requests : RequestStep(q) \/ GatewayCrash(q)
  BY DEF GatewayNext
<1>2. request \in [Requests -> RequestRecord]
  BY DEF Typed, TypeOK, GatewayTypeOK
<1>3. request[q].pc # "done"
  BY <1>1 DEF RequestStep, SubmitPut, RelatePut, PublishJob, Undo, ReadRun, DecisionPut,
              GatewayCrash, At
<1>4. \A p \in Requests : p # q => request'[p] = request[p]
  <2>1. (\E pc : Goto(q, pc)) \/ (\E answer : Answer(q, answer))
            \/ \E rec : request' = [request EXCEPT ![q] = rec]
    BY <1>1 DEF RequestStep, SubmitPut, RelatePut, PublishJob, Undo, ReadRun, DecisionPut,
                GatewayCrash
  <2>2. QED
    BY <1>2, <2>1 DEF Goto, Answer
<1>5. QED
  BY <1>3, <1>4 DEF StopRequested

\* A put of a justified snapshot keeps the bucket justified.
LEMMA PutJustified ==
    ASSUME Typed, CancelInv, \A r : StopRequested(r) => StopRequested(r)',
           NEW k \in Runs, NEW snap, NEW applied \in BOOLEAN, PutRun(k, snap, applied),
           CancelRequested(snap) => StopRequested(k)'
    PROVE  \A r \in Runs : CancelRequested(runsKv'[r]) => StopRequested(r)'
<1>1. runsKv \in [Runs -> Snapshot]
  BY DEF Typed, TypeOK, StoreTypeOK
<1>2. TAKE r \in Runs
<1>3. runsKv'[r] = runsKv[r] \/ (r = k /\ runsKv'[r] = snap)
  BY <1>1 DEF PutRun
<1>4. QED
  BY <1>3 DEF CancelInv

\* A request that moves on or ends keeps what it read.
LEMMA CancelRequestStep ==
    ASSUME Typed, CancelInv, UNCHANGED delivery,
           \A r : StopRequested(r) => StopRequested(r)',
           \A r \in Runs : CancelRequested(runsKv'[r]) => StopRequested(r)',
           NEW q \in Requests,
           \/ \E pc \in {"relate", "publish", "undo"} : Goto(q, pc)
           \/ \E answer : Answer(q, answer)
    PROVE  CancelInv'
<1>1. request \in [Requests -> RequestRecord]
  BY DEF Typed, TypeOK, GatewayTypeOK
<1>2. ASSUME NEW p \in Requests PROVE RequestJustified(p)'
  <2>1. request'[p].seen = request[p].seen
            /\ (request'[p].pc = "put" => request[p].pc = "put")
    BY <1>1 DEF Goto, Answer, RequestRecord
  <2>2. QED
    BY <2>1 DEF CancelInv, RequestJustified
<1>3. \A d \in Slots : DeliveryJustified(delivery[d])'
  BY DEF CancelInv, DeliveryJustified
<1>4. QED
  BY <1>2, <1>3 DEF CancelInv

LEMMA GatewayCancel ==
    ASSUME Typed, CancelInv, GatewayNext, UNCHANGED delivery
    PROVE  CancelInv'
<1>1. PICK q \in Requests : RequestStep(q) \/ GatewayCrash(q)
  BY DEF GatewayNext
<1>2. \A r : StopRequested(r) => StopRequested(r)'
  BY StopStays
<1>3. /\ request \in [Requests -> RequestRecord] /\ ReqRun[q] \in Runs
      /\ RequestJustified(q) /\ request[q].seen \in Snapshot
  BY DEF Typed, TypeOK, GatewayTypeOK, CancelInv, RequestRecord
<1>4. CASE UNCHANGED runsKv /\ (\/ \E pc \in {"relate", "publish", "undo"} : Goto(q, pc)
                                \/ \E answer : Answer(q, answer))
  BY <1>2, <1>4, CancelRequestStep DEF CancelInv
<1>5. CASE SubmitPut(q)
  <2>1. PICK applied \in BOOLEAN :
            /\ PutRun(ReqRun[q], InitialSnapshot(ReqKind[q]), applied)
            /\ \/ \E pc \in {"relate", "publish", "undo"} : Goto(q, pc)
               \/ \E answer : Answer(q, answer)
    BY <1>5 DEF SubmitPut
  <2>2. ~CancelRequested(InitialSnapshot(ReqKind[q]))
    <3>1. /\ ~CancelRequested(Snap("PENDING_APPROVAL", FALSE, "pending"))
          /\ ~CancelRequested(Snap("PENDING", FALSE, "none"))
      BY DEF CancelRequested, Snap
    <3>2. CASE ReqKind[q] = "spawnBundle"
      BY <3>1, <3>2 DEF InitialSnapshot
    <3>3. CASE ReqKind[q] \in {"submit", "bundle", "client"}
      BY <3>1, <3>3 DEF InitialSnapshot
    <3>4. QED
      BY <1>5, <3>2, <3>3 DEF SubmitPut, At, SubmitKinds
  <2>3. QED
    BY <1>2, <1>3, <2>1, <2>2, PutJustified, CancelRequestStep
<1>6. CASE RelatePut(q)
  BY <1>4, <1>6 DEF RelatePut
<1>7. CASE PublishJob(q)
  BY <1>4, <1>7 DEF PublishJob
<1>8. CASE Undo(q)
  <2>1. PICK applied \in BOOLEAN :
            PutRun(ReqRun[q], IF ReqKind[q] = "approve" THEN request[q].seen ELSE Absent, applied)
    BY <1>8 DEF Undo
  <2>2. CancelRequested(request[q].seen) => StopRequested(ReqRun[q])
    BY <1>3 DEF RequestJustified
  <2>3. ~CancelRequested(Absent)
    BY DEF CancelRequested, Absent, Snap
  <2>4. QED
    BY <1>2, <1>3, <1>8, <2>1, <2>2, <2>3, PutJustified, CancelRequestStep DEF Undo
<1>9. CASE ReadRun(q)
  <2>1. UNCHANGED runsKv
    BY <1>9 DEF ReadRun
  <2>2. CASE Answer(q, "failed")
    BY <1>4, <2>1, <2>2
  <2>3. ASSUME NEW pc, NEW answer,
               request' = [request EXCEPT ![q] =
                    [pc |-> pc, seen |-> runsKv[ReqRun[q]], answer |-> answer]],
               pc = "put" => Decidable(ReqKind[q], runsKv[ReqRun[q]])
        PROVE  CancelInv'
    <3>1. \A p \in Requests : p # q => request'[p] = request[p]
      BY <1>3, <2>3
    <3>2. request'[q].pc = pc /\ request'[q].seen = runsKv[ReqRun[q]]
      BY <1>3, <2>3
    <3>3. pc = "put" => runsKv[ReqRun[q]].status \notin Terminal \cup {"absent"}
      BY <2>3 DEF Decidable, Terminal
    <3>4. RequestJustified(q)'
      BY <1>2, <1>3, <3>2, <3>3 DEF RequestJustified, CancelInv
    <3>5. \A p \in Requests : RequestJustified(p)'
      BY <1>2, <3>1, <3>4 DEF RequestJustified, CancelInv
    <3>6. QED
      BY <1>2, <2>1, <3>5 DEF CancelInv, DeliveryJustified
  <2>4. QED
    BY <1>9, <2>2, <2>3 DEF ReadRun
<1>10. CASE DecisionPut(q)
  <2>1. PICK applied \in BOOLEAN :
            PutRun(ReqRun[q], Decided(ReqKind[q], request[q].seen), applied)
    BY <1>10 DEF DecisionPut
  <2>2. /\ ReqKind[q] \in {"approve", "reject", "cancel"} /\ request[q].pc = "put"
        /\ \/ \E pc \in {"publish", "undo"} : Goto(q, pc)
           \/ \E answer : Answer(q, answer)
        /\ ReqKind[q] # "approve" => \E answer \in {"accepted", "failed"} : Answer(q, answer)
    BY <1>10 DEF DecisionPut, At
  <2>3. CancelRequested(Decided(ReqKind[q], request[q].seen)) => StopRequested(ReqRun[q])'
    <3>1. CASE ReqKind[q] = "approve"
      BY <1>2, <1>3, <3>1 DEF Decided, Snap, CancelRequested, RequestJustified
    <3>2. CASE ReqKind[q] \in {"reject", "cancel"}
      <4>1. PICK answer \in {"accepted", "failed"} : Answer(q, answer)
        BY <2>2, <3>2
      <4>2. /\ request'[q].pc = "done" /\ request'[q].answer = answer
            /\ request'[q].seen = request[q].seen
        BY <1>3, <4>1 DEF Answer, RequestRecord
      <4>3. QED
        BY <1>3, <2>2, <3>2, <4>2 DEF StopRequested, RequestJustified
    <3>3. QED
      BY <2>2, <3>1, <3>2
  <2>4. QED
    BY <1>2, <1>3, <2>1, <2>2, <2>3, PutJustified, CancelRequestStep
<1>11. CASE GatewayCrash(q)
  BY <1>4, <1>11 DEF GatewayCrash
<1>12. QED
  BY <1>1, <1>5, <1>6, <1>7, <1>8, <1>9, <1>10, <1>11 DEF RequestStep

\* A worker's step that writes at most one justified snapshot and changes at
\* most one delivery, to a justified one.
LEMMA CancelDeliveryStep ==
    ASSUME Typed, CancelInv, UNCHANGED request, NEW d \in Slots, NEW rec, Becomes(d, rec),
           DeliveryJustified(rec),
           \/ UNCHANGED runsKv
           \/ /\ delivery[d].run \in Runs
              /\ \E snap : \E applied \in BOOLEAN :
                    /\ PutRun(delivery[d].run, snap, applied)
                    /\ CancelRequested(snap) => StopRequested(delivery[d].run)
    PROVE  CancelInv'
<1>1. delivery \in [Slots -> DeliveryRecord]
  BY DEF Typed, TypeOK, WorkerTypeOK
<1>2. \A r : StopRequested(r) => StopRequested(r)'
  BY DEF StopRequested
<1>3. \A r \in Runs : CancelRequested(runsKv'[r]) => StopRequested(r)'
  BY <1>2, PutJustified DEF CancelInv
<1>4. ASSUME NEW e \in Slots PROVE DeliveryJustified(delivery[e])'
  <2>1. DeliveryJustified(delivery'[e])
    BY <1>1 DEF Becomes, CancelInv
  <2>2. QED
    BY <1>2, <2>1 DEF DeliveryJustified
<1>5. \A q \in Requests : RequestJustified(q)'
  BY <1>2 DEF CancelInv, RequestJustified
<1>6. QED
  BY <1>3, <1>4, <1>5 DEF CancelInv

\* What a delivery writes asks for cancellation only if the delivery does.
LEMMA WrittenJustified ==
    ASSUME NEW d \in Slots, DeliveryJustified(delivery[d])
    PROVE  /\ CancelRequested(ContextSnapshot(d)) => StopRequested(delivery[d].run)
           /\ CancelRequested(LiveSnapshot(d)) => StopRequested(delivery[d].run)
           /\ ~CancelRequested(FallbackSnapshot)
           /\ ~CancelRequested(Snap("FAILED", FALSE, delivery[d].approval))
BY DEF DeliveryJustified, ContextSnapshot, LiveSnapshot, FallbackSnapshot, CancelRequested, Snap

LEMMA WorkerCancel ==
    ASSUME Typed, CancelInv, WorkerNext, UNCHANGED request
    PROVE  CancelInv'
<1>1. \A d \in Slots : /\ delivery[d] \in DeliveryRecord /\ DeliveryJustified(delivery[d])
                       /\ WellFormed(delivery[d])
  BY DEF Typed, WellFormed, CancelInv
\* A step that changes neither the status, the cancel flag nor the run.
<1>2. ASSUME NEW d \in Slots, NEW rec, Becomes(d, rec), rec.run = delivery[d].run,
             rec.status = delivery[d].status, rec.cancel = delivery[d].cancel,
             \/ UNCHANGED runsKv
             \/ /\ delivery[d].run \in Runs
                /\ \E snap : \E applied \in BOOLEAN :
                    /\ PutRun(delivery[d].run, snap, applied)
                    /\ CancelRequested(snap) => StopRequested(delivery[d].run)
      PROVE  CancelInv'
  BY <1>1, <1>2, CancelDeliveryStep DEF DeliveryJustified
<1>3. ASSUME NEW d \in Slots, NEW w \in Workers, NEW m \in Msgs, Fetch(d, w, m)
      PROVE  CancelInv'
  <2>1. DeliveryJustified(Fetched(w, m))
    BY DEF DeliveryJustified, Fetched, FreeSlot
  <2>2. QED
    BY <1>3, <2>1, CancelDeliveryStep DEF Fetch
<1>4. ASSUME NEW d \in Slots, HandlerStep(d)
      PROVE  CancelInv'
  <2>1. CASE DiscardInvalid(d) \/ Ack(d) \/ Nak(d)
    <3>1. UNCHANGED runsKv /\ (\/ Becomes(d, Returned(delivery[d]))
                               \/ \E pc : Becomes(d, [delivery[d] EXCEPT !.pc = pc]))
      BY <2>1 DEF DiscardInvalid, Ack, Nak
    <3>2. QED
      BY <1>1, <1>2, <3>1 DEF Returned, DeliveryRecord
  <2>2. CASE RecordFailure(d) \/ FailResolve(d)
    <3>1. delivery[d].run \in Runs
      BY <1>1, <2>2 DEF RecordFailure, FailResolve, WellFormed, Handling
    <3>2. PICK snap \in {FallbackSnapshot, Snap("FAILED", FALSE, delivery[d].approval)},
               applied \in BOOLEAN :
            /\ PutRun(delivery[d].run, snap, applied)
            /\ \E pc : Becomes(d, [delivery[d] EXCEPT !.pc = pc])
      BY <2>2 DEF RecordFailure, FailResolve
    <3>3. CancelRequested(snap) => StopRequested(delivery[d].run)
      BY <1>1, <3>2, WrittenJustified
    <3>4. QED
      BY <1>1, <1>2, <3>1, <3>2, <3>3 DEF DeliveryRecord
  <2>3. CASE ReadSnapshot(d)
    <3>1. delivery[d].run \in Runs \/ delivery[d].run = NoRun
      BY <1>1 DEF DeliveryRecord
    <3>2. ASSUME NEW c \in BOOLEAN, NEW a,
                 Becomes(d, [delivery[d] EXCEPT !.pc = "resolve", !.status = FreshStatus,
                                                !.cancel = c, !.approval = a]),
                 c => CancelRequested(runsKv[delivery[d].run])
          PROVE  CancelInv'
      <4>1. DeliveryJustified([delivery[d] EXCEPT !.pc = "resolve", !.status = FreshStatus,
                                                  !.cancel = c, !.approval = a])
        BY <1>1, <2>3, <3>1, <3>2
           DEF ReadSnapshot, DeliveryJustified, CancelInv, FreshStatus, DeliveryRecord
      <4>2. QED
        BY <2>3, <3>2, <4>1, CancelDeliveryStep DEF ReadSnapshot
    <3>3. PICK err :
              LET snap == IF err = "none" THEN runsKv[delivery[d].run] ELSE Absent IN
              Becomes(d, [delivery[d] EXCEPT !.pc = "resolve", !.status = FreshStatus,
                              !.cancel = CancelRequested(snap), !.approval = snap.approval])
      BY <2>3 DEF ReadSnapshot
    <3>4. CASE err = "none"
      <4>1. CancelRequested(runsKv[delivery[d].run]) \in BOOLEAN
        BY <2>3, <3>1 DEF ReadSnapshot, Typed, TypeOK, StoreTypeOK, CancelRequested, Snapshot
      <4>2. Becomes(d, [delivery[d] EXCEPT !.pc = "resolve", !.status = FreshStatus,
                              !.cancel = CancelRequested(runsKv[delivery[d].run]),
                              !.approval = runsKv[delivery[d].run].approval])
        BY <3>3, <3>4
      <4>3. QED
        BY <3>2, <4>1, <4>2
    <3>5. CASE err # "none"
      <4>1. CancelRequested(Absent) = FALSE
        BY DEF CancelRequested, Absent, Snap
      <4>2. Becomes(d, [delivery[d] EXCEPT !.pc = "resolve", !.status = FreshStatus,
                              !.cancel = FALSE, !.approval = Absent.approval])
        BY <3>3, <3>5, <4>1
      <4>3. QED
        BY <3>2, <4>2
    <3>6. QED
      BY <3>4, <3>5
  <2>4. CASE TakeOwnership(d) \/ Finalize(d)
    <3>1. delivery[d].run \in Runs
      BY <1>1, <2>4 DEF TakeOwnership, Finalize, WellFormed, Handling
    <3>2. PICK h, pc :
            /\ Becomes(d, [delivery[d] EXCEPT !.heartbeat = h, !.pc = pc])
            /\ \/ UNCHANGED runsKv
               \/ \E snap \in {LiveSnapshot(d), ContextSnapshot(d)}, applied \in BOOLEAN :
                    PutRun(delivery[d].run, snap, applied)
      BY <2>4 DEF TakeOwnership, Finalize
    <3>3. \A snap \in {LiveSnapshot(d), ContextSnapshot(d)} :
            CancelRequested(snap) => StopRequested(delivery[d].run)
      BY <1>1, WrittenJustified
    <3>4. QED
      BY <1>1, <1>2, <3>1, <3>2, <3>3 DEF DeliveryRecord
  <2>5. QED
    BY <1>4, <2>1, <2>2, <2>3, <2>4 DEF HandlerStep
<1>5. ASSUME NEW d \in Slots, HeartbeatRead(d)
      PROVE  CancelInv'
  <2>1. delivery[d].run \in Runs
    BY <1>1, <1>5 DEF HeartbeatRead, WellFormed
  <2>2. PICK c :
          /\ Becomes(d, [delivery[d] EXCEPT !.heartbeat = "read", !.cancel = c,
                                            !.status = StatusAfterBeat(d, c)])
          /\ c => delivery[d].cancel \/ CancelRequested(runsKv[delivery[d].run])
    BY <1>5 DEF HeartbeatRead
  <2>3. c => StopRequested(delivery[d].run)
    BY <1>1, <2>1, <2>2 DEF CancelInv, DeliveryJustified
  <2>4. DeliveryJustified([delivery[d] EXCEPT !.heartbeat = "read", !.cancel = c,
                                              !.status = StatusAfterBeat(d, c)])
    BY <1>1, <2>3 DEF DeliveryJustified, StatusAfterBeat, DeliveryRecord
  <2>5. QED
    BY <1>5, <2>2, <2>4, CancelDeliveryStep DEF HeartbeatRead
<1>6. ASSUME NEW d \in Slots, HeartbeatPut(d) \/ Flush(d)
      PROVE  CancelInv'
  <2>1. delivery[d].run \in Runs
    BY <1>1, <1>6 DEF HeartbeatPut, Flush, Flushing, WellFormed
  <2>2. PICK snap \in {LiveSnapshot(d), ContextSnapshot(d)}, applied \in BOOLEAN :
          /\ PutRun(delivery[d].run, snap, applied)
          /\ \E x : Becomes(d, [delivery[d] EXCEPT !.heartbeat = x])
                    \/ Becomes(d, [delivery[d] EXCEPT !.flush = x])
    BY <1>6 DEF HeartbeatPut, Flush
  <2>3. CancelRequested(snap) => StopRequested(delivery[d].run)
    BY <1>1, <2>2, WrittenJustified
  <2>4. QED
    BY <1>1, <1>2, <2>1, <2>2, <2>3 DEF DeliveryRecord
<1>7. ASSUME NEW d \in Slots, EngineStep(d) \/ EngineEvent(d)
      PROVE  CancelInv'
  <2>1. UNCHANGED runsKv
    BY <1>7 DEF EngineStep, EngineStart, EngineComplete, EngineCancelled, EngineFail,
                EngineEnd, EngineEvent, storeVars
  <2>2. CASE EngineEvent(d)
    BY <1>1, <1>2, <2>1, <2>2 DEF EngineEvent, DeliveryRecord
  <2>3. CASE EngineStep(d)
    <3>1. PICK pc, f, s :
            /\ Becomes(d, [delivery[d] EXCEPT !.pc = pc, !.status = s, !.flush = f])
            /\ \/ s \in {"RUNNING", "COMPLETED", "FAILED"}
               \/ s = "CANCELLED" /\ delivery[d].status = "CANCELLING"
      BY <2>3 DEF EngineStep, EngineStart, EngineComplete, EngineCancelled, EngineFail, EngineEnd
    <3>2. DeliveryJustified([delivery[d] EXCEPT !.pc = pc, !.status = s, !.flush = f])
      BY <1>1, <3>1 DEF DeliveryJustified, DeliveryRecord
    <3>3. QED
      BY <2>1, <3>1, <3>2, CancelDeliveryStep
  <2>4. QED
    BY <1>7, <2>2, <2>3
<1>8. ASSUME NEW d \in Slots, LoseProgress(d)
      PROVE  CancelInv'
  BY <1>1, <1>2, <1>8 DEF LoseProgress, DeliveryRecord
<1>9. ASSUME NEW w \in Workers, WorkerCrash(w)
      PROVE  CancelInv'
  <2>1. ASSUME NEW d \in Slots PROVE DeliveryJustified(delivery'[d])
    <3>1. \/ delivery'[d] = delivery[d]
          \/ delivery'[d] = [delivery[d] EXCEPT !.pc = "dead", !.heartbeat = "off",
                                                !.flush = "idle", !.progress = FALSE]
      BY <1>9 DEF WorkerCrash
    <3>2. QED
      BY <1>1, <3>1 DEF DeliveryJustified, DeliveryRecord
  <2>2. QED
    BY <1>9, <2>1 DEF WorkerCrash, CancelInv, DeliveryJustified, RequestJustified, StopRequested
<1>10. ASSUME NEW m \in Msgs, AckWaitExpires(m)
       PROVE  CancelInv'
  BY <1>10 DEF AckWaitExpires, CancelInv, DeliveryJustified, RequestJustified, StopRequested
<1>11. QED
  BY <1>3, <1>4, <1>5, <1>6, <1>7, <1>8, <1>9, <1>10 DEF WorkerNext, BackgroundStep

LEMMA CancelInvariant == Spec => []CancelInv
<1>1. Typed /\ CancelInv /\ [Next]_vars => CancelInv'
  <2>1. ASSUME Typed, CancelInv, Next PROVE CancelInv'
    BY <2>1, GatewayCancel, WorkerCancel DEF Next
  <2>2. ASSUME CancelInv, UNCHANGED vars PROVE CancelInv'
    BY <2>2 DEF vars, CancelInv, DeliveryJustified, RequestJustified, StopRequested
  <2>3. QED
    BY <2>1, <2>2
<1>2. QED
  BY <1>1, InitCancel, TypeCorrect, PTL DEF Spec

\* A run is shown as CANCELLING or CANCELLED, or cancelled by a worker, only
\* if a cancel or reject call (http_api.py) found it in a status it may stop.
THEOREM CancelsAreAsked == Spec => []CancelOnlyIfAsked
<1>1. CancelInv => CancelOnlyIfAsked
  BY DEF CancelInv, CancelOnlyIfAsked, CancelRequested, DeliveryJustified
<1>2. QED
  BY <1>1, CancelInvariant, PTL

-----------------------------------------------------------------------------
(* Approval.  ApprovalGate rests on what an approve call may still do with *)
(* the snapshot it read.                                                   *)

ApproveSound(q) ==
    /\ ReqKind[q] = "approve" /\ request[q].pc \in {"put", "publish", "undo"}
        => request[q].seen.status = "PENDING_APPROVAL"
    /\ request[q].pc = "new" => request[q].seen.status # "PENDING_APPROVAL"

ApprovalInv == ApprovalGate /\ \A q \in Requests : ApproveSound(q)

LEMMA InitApproval == Init => ApprovalInv
BY DEF Init, StoreInit, GatewayInit, ApprovalInv, ApprovalGate, ApproveSound, Absent, Snap

\* A step under which no message takes on a run, and no request forgets the
\* waiting snapshot it read.
LEMMA ApprovalStep ==
    ASSUME ApprovalInv,
           \A m \in Msgs : workStream'[m].run \in {workStream[m].run, NoRun},
           \A q \in Requests : request[q].seen.status = "PENDING_APPROVAL"
                => request'[q].seen.status = "PENDING_APPROVAL",
           \A q \in Requests : ApproveSound(q)'
    PROVE  ApprovalInv'
BY DEF ApprovalInv, ApprovalGate, NeedsApproval

LEMMA GatewayApproval ==
    ASSUME Typed, ApprovalInv, GatewayNext
    PROVE  ApprovalInv'
<1>1. PICK q \in Requests : RequestStep(q) \/ GatewayCrash(q)
  BY DEF GatewayNext
<1>2. request \in [Requests -> RequestRecord] /\ workStream \in [Msgs -> Message]
  BY DEF Typed, TypeOK, GatewayTypeOK, StoreTypeOK
<1>3. CASE SubmitPut(q) \/ RelatePut(q)
  <2>1. ReqKind[q] # "approve" /\ UNCHANGED workStream
    BY <1>3 DEF SubmitPut, RelatePut, At, SubmitKinds
  <2>2. (\E pc \in {"relate", "publish", "undo"} : Goto(q, pc)) \/ \E answer : Answer(q, answer)
    BY <1>3 DEF SubmitPut, RelatePut
  <2>3. \A p \in Requests : request'[p].seen = request[p].seen /\ ApproveSound(p)'
    BY <1>2, <2>1, <2>2 DEF Goto, Answer, ApproveSound, ApprovalInv, RequestRecord
  <2>4. QED
    BY <1>2, <2>1, <2>3, ApprovalStep
<1>4. CASE PublishJob(q)
  <2>1. request[q].pc = "publish" /\ ReqKind[q] \in {"submit", "bundle", "client", "approve"}
    BY <1>4 DEF PublishJob, At
  <2>2. (ReqKind[q] = "approve" => request[q].seen.status = "PENDING_APPROVAL")
    BY <2>1 DEF ApprovalInv, ApproveSound
  <2>3. \A p \in Requests : request'[p].seen = request[p].seen /\ ApproveSound(p)'
    BY <1>2, <1>4, <2>1, <2>2
       DEF PublishJob, Goto, Answer, ApproveSound, ApprovalInv, RequestRecord
  <2>4. PICK applied \in BOOLEAN : PublishRun(ReqRun[q], applied)
    BY <1>4 DEF PublishJob
  <2>5. ASSUME NEW m \in Msgs, workStream'[m].run # NoRun, NeedsApproval(workStream'[m].run)
        PROVE  \E p \in Requests :
                /\ ReqRun[p] = workStream'[m].run
                /\ ReqKind[p] = "approve"
                /\ request'[p].seen.status = "PENDING_APPROVAL"
    <3>1. CASE workStream'[m].run = workStream[m].run
      BY <2>3, <2>5, <3>1 DEF ApprovalInv, ApprovalGate
    <3>2. CASE workStream'[m].run = ReqRun[q]
      <4>1. ReqKind[q] = "approve"
        BY <2>1, <2>5, <3>2 DEF NeedsApproval, SubmitKinds
      <4>2. QED
        BY <2>2, <2>3, <3>2, <4>1
    <3>3. QED
      BY <1>2, <2>4, <3>1, <3>2 DEF PublishRun, Message
  <2>6. QED
    BY <2>3, <2>5 DEF ApprovalInv, ApprovalGate, NeedsApproval
<1>5. CASE Undo(q) \/ DecisionPut(q) \/ GatewayCrash(q)
  <2>1. request[q].pc # "new" /\ UNCHANGED workStream
    BY <1>5 DEF Undo, DecisionPut, GatewayCrash, At
  <2>2. (\E pc \in {"publish", "undo"} : Goto(q, pc) /\ request[q].pc = "put")
            \/ \E answer : Answer(q, answer)
    BY <1>5 DEF Undo, DecisionPut, GatewayCrash, At
  <2>3. \A p \in Requests : request'[p].seen = request[p].seen /\ ApproveSound(p)'
    BY <1>2, <2>1, <2>2 DEF Goto, Answer, ApproveSound, ApprovalInv, RequestRecord
  <2>4. QED
    BY <1>2, <2>1, <2>3, ApprovalStep
<1>6. CASE ReadRun(q)
  <2>1. request[q].pc = "new" /\ UNCHANGED workStream
    BY <1>6 DEF ReadRun, At
  <2>2. CASE Answer(q, "failed")
    <3>1. \A p \in Requests : request'[p].seen = request[p].seen /\ ApproveSound(p)'
      BY <1>2, <2>2 DEF Answer, ApproveSound, ApprovalInv, RequestRecord
    <3>2. QED
      BY <1>2, <2>1, <3>1, ApprovalStep
  <2>3. ASSUME NEW pc \in {"put", "done"}, NEW seen, NEW answer,
               request' = [request EXCEPT ![q] = [pc |-> pc, seen |-> seen, answer |-> answer]],
               pc = "put" => Decidable(ReqKind[q], seen)
        PROVE  ApprovalInv'
    <3>1. /\ \A p \in Requests : p # q => request'[p] = request[p]
          /\ request'[q].pc = pc /\ request'[q].seen = seen
      BY <1>2, <2>3
    <3>2. ApproveSound(q)'
      BY <2>3, <3>1 DEF ApproveSound, Decidable
    <3>3. \A p \in Requests : ApproveSound(p)'
      BY <3>1, <3>2 DEF ApproveSound, ApprovalInv
    <3>4. request[q].seen.status # "PENDING_APPROVAL"
      BY <2>1 DEF ApprovalInv, ApproveSound
    <3>5. QED
      BY <2>1, <3>1, <3>3, <3>4, ApprovalStep
  <2>4. QED
    BY <1>6, <2>2, <2>3 DEF ReadRun
<1>7. QED
  BY <1>1, <1>3, <1>4, <1>5, <1>6 DEF RequestStep

\* Workers acknowledge and requeue messages; they never publish one.
LEMMA WorkerKeepsRuns ==
    ASSUME Typed, WorkerNext
    PROVE  \A m \in Msgs : workStream'[m].run = workStream[m].run
<1>1. workStream \in [Msgs -> Message]
  BY DEF Typed, TypeOK, StoreTypeOK
<1>2. \/ UNCHANGED workStream
      \/ \E m, state : workStream' = [workStream EXCEPT ![m].state = state]
      \/ \E m, state, tries :
            workStream' = [workStream EXCEPT ![m].state = state, ![m].tries = tries]
  <2>1. ASSUME NEW d \in Slots, HandlerStep(d) PROVE <1>2
    BY <2>1 DEF HandlerStep, DiscardInvalid, Ack, Nak, RecordFailure, ReadSnapshot,
                FailResolve, TakeOwnership, Finalize, RemoveMsg
  <2>2. ASSUME NEW d \in Slots, BackgroundStep(d) \/ EngineStep(d) \/ EngineEvent(d)
                                \/ LoseProgress(d)
        PROVE <1>2
    BY <2>2 DEF BackgroundStep, HeartbeatRead, HeartbeatPut, Flush, EngineStep, EngineStart,
                EngineComplete, EngineCancelled, EngineFail, EngineEnd, EngineEvent,
                LoseProgress, storeVars
  <2>3. QED
    BY <2>1, <2>2 DEF WorkerNext, Fetch, WorkerCrash, AckWaitExpires
<1>3. ASSUME NEW m, NEW state, NEW tries, NEW k \in Msgs
      PROVE  /\ [workStream EXCEPT ![m].state = state][k].run = workStream[k].run
             /\ [workStream EXCEPT ![m].state = state, ![m].tries = tries][k].run
                    = workStream[k].run
  BY <1>1 DEF Message
<1>4. TAKE k \in Msgs
<1>5. CASE UNCHANGED workStream
  BY <1>5
<1>6. CASE \E m, state : workStream' = [workStream EXCEPT ![m].state = state]
  BY <1>3, <1>6
<1>7. CASE \E m, state, tries :
            workStream' = [workStream EXCEPT ![m].state = state, ![m].tries = tries]
  <2>1. PICK m, state, tries :
            workStream' = [workStream EXCEPT ![m].state = state, ![m].tries = tries]
    BY <1>7
  <2>2. [workStream EXCEPT ![m].state = state, ![m].tries = tries][k].run = workStream[k].run
    BY <1>1, SMTT(60) DEF Message
  <2>3. QED
    BY <2>1, <2>2
<1>8. QED
  BY <1>2, <1>5, <1>6, <1>7

LEMMA ApprovalInvariant == Spec => []ApprovalInv
<1>1. Typed /\ ApprovalInv /\ [Next]_vars => ApprovalInv'
  <2>1. ASSUME Typed, ApprovalInv, WorkerNext, UNCHANGED request PROVE ApprovalInv'
    <3>1. \A q \in Requests : ApproveSound(q)'
      BY <2>1 DEF ApprovalInv, ApproveSound
    <3>2. QED
      BY <2>1, <3>1, WorkerKeepsRuns, ApprovalStep
  <2>2. ASSUME ApprovalInv, UNCHANGED vars PROVE ApprovalInv'
    BY <2>2 DEF vars, ApprovalInv, ApprovalGate, ApproveSound, NeedsApproval
  <2>3. QED
    BY <2>1, <2>2, GatewayApproval DEF Next
<1>2. QED
  BY <1>1, InitApproval, TypeCorrect, PTL DEF Spec

\* A run whose bundle can spawn is never in the work queue unless an approve
\* call (http_api.py) read it as PENDING_APPROVAL, however approve, reject and
\* cancel calls race and whichever of their calls fail.
THEOREM ApprovalIsRequired == Spec => []ApprovalGate
<1>1. ApprovalInv => ApprovalGate
  BY DEF ApprovalInv
<1>2. QED
  BY <1>1, ApprovalInvariant, PTL

-----------------------------------------------------------------------------
(* The end of a run.  While nothing has failed, a run's snapshot has one    *)
(* writer after the other: the submit, the one decision that read it        *)
(* waiting, and the one delivery of its one job; only a cancel's blind put  *)
(* comes in between.  The invariant says who is left to write, and that     *)
(* nobody is once the status is terminal.                                   *)

\* Request q read its run while that waited for approval.
Decides(q) == request[q].seen.status = "PENDING_APPROVAL"

\* Requests that put a job in the queue, and those that still have to.
Queues(q) ==
    \/ ReqKind[q] \in {"submit", "bundle", "client"}
    \/ ReqKind[q] = "approve" /\ Decides(q)
StillQueues(q) ==
    \/ ReqKind[q] \in {"submit", "bundle", "client"} /\ request[q].pc \in {"relate", "publish"}
    \/ ReqKind[q] = "approve" /\ request[q].pc = "publish"

JobOf(m, r) == workStream[m].state # "unused" /\ workStream[m].run = r

Unsubmitted(q) == ReqKind[q] \in SubmitKinds /\ request[q].pc = "new"

\* A request has nothing to undo; a decision read a waiting run, which is one
\* that needs approval; before the submit there is nothing to see of a run.
SteadyRequest(q) ==
    /\ request[q].pc # "undo"
    /\ ReqKind[q] \in {"approve", "reject"} /\ request[q].pc = "put" => Decides(q)
    /\ Decides(q) => NeedsApproval(ReqRun[q])
    /\ Unsubmitted(q) =>
        /\ runsKv[ReqRun[q]].status = "absent"
        /\ \A m \in Msgs : ~JobOf(m, ReqRun[q])
        /\ \A p \in Requests : ReqRun[p] = ReqRun[q] => request[p].seen.status = "absent"

SteadyRun(r) == runsKv[r].status = "PENDING_APPROVAL" => NeedsApproval(r)

\* A job was queued by a request that is done, and is out only in the hands of
\* a handler.
SteadyMessage(m) ==
    /\ workStream[m].state # "unused" /\ workStream[m].run # NoRun =>
        \E q \in Requests : Queues(q) /\ ReqRun[q] = workStream[m].run /\ request[q].pc = "done"
    /\ workStream[m].state = "out" =>
        \E d \in Slots : delivery[d].pc \in Handling /\ delivery[d].msg = m

\* Where a handler stands says which of its tasks can still write, and what.
SteadyRecord(rec) ==
    /\ rec.pc \notin {"failed", "crashed", "closing", "dead"}
    /\ rec.heartbeat \in {"off", "idle", "read"} /\ rec.flush # "stale"
    /\ rec.pc \in Handling => rec.progress
    /\ rec.pc \in {"free", "fetched", "resolve"} => rec.heartbeat = "off" /\ rec.flush = "idle"
    /\ rec.pc = "resolve" => rec.status = "PENDING"
    /\ rec.pc = "start" => rec.flush = "idle" /\ rec.status = "PENDING"
    /\ rec.pc = "engine" => rec.status \in {"RUNNING", "CANCELLING"}
    /\ rec.pc \in {"settled", "done"} =>
        rec.heartbeat = "off" /\ (rec.flush = "idle" \/ rec.status \in Terminal)

\* A delivery holds its message, until the handler that returns removes it.
HoldsMessage(rec) ==
    rec.pc # "free" =>
        /\ rec.msg \in Msgs /\ rec.run = workStream[rec.msg].run
        /\ workStream[rec.msg].state = IF rec.pc = "done" THEN "gone" ELSE "out"

\* One job for a run, unless decisions raced on it, and one delivery for a job.
OneJobEach ==
    \A m, n \in Msgs : \A r \in Runs :
        m # n /\ JobOf(m, r) /\ JobOf(n, r) => RacedDecisions(r)
OneDeliveryEach ==
    \A d, e \in Slots :
        delivery[d].pc # "free" /\ delivery[e].pc # "free" /\ delivery[d].msg = delivery[e].msg
            => d = e

Ended == {"final", "settled", "done"}

\* Nobody is left to write another status of run r, except a cancel.
Over(r) ==
    /\ \A m \in Msgs : ~(JobOf(m, r) /\ workStream[m].state = "ready")
    /\ \A q \in Requests : ReqRun[q] = r =>
        ~StillQueues(q) /\ ~(request[q].pc = "put" /\ Decides(q))
    /\ \A d \in Slots : delivery[d].pc # "free" /\ delivery[d].run = r =>
        /\ delivery[d].pc \in Ended
        /\ delivery[d].status \in Terminal => delivery[d].status = runsKv[r].status

Quiescent(r) == ~RacedDecisions(r) /\ runsKv[r].status \in Terminal => Over(r)

SteadyInv ==
    /\ \A q \in Requests : SteadyRequest(q)
    /\ \A r \in Runs : SteadyRun(r) /\ Quiescent(r)
    /\ \A m \in Msgs : SteadyMessage(m)
    /\ \A d \in Slots : SteadyRecord(delivery[d]) /\ HoldsMessage(delivery[d])
    /\ OneJobEach /\ OneDeliveryEach

CalmInv == faultsLeft = MaxFaults => SteadyInv

LEMMA InitSteady == Init => SteadyInv
<1> SUFFICES ASSUME Init PROVE SteadyInv
  OBVIOUS
<1>1. /\ \A r \in Runs : runsKv[r].status = "absent"
      /\ \A q \in Requests : request[q].pc = "new" /\ request[q].seen.status = "absent"
      /\ \A m \in Msgs : workStream[m].state \in {"ready", "unused"} /\ workStream[m].run = NoRun
      /\ \A d \in Slots : /\ delivery[d].pc = "free" /\ delivery[d].heartbeat = "off"
                          /\ delivery[d].flush = "idle"
  BY DEF Init, StoreInit, GatewayInit, WorkerInit, FreeSlot, Absent, Snap
<1>2. \A m \in Msgs : \A r \in Runs : ~JobOf(m, r)
  BY <1>1 DEF JobOf
<1>3. \A q \in Requests : ReqRun[q] \in Runs
  OBVIOUS
<1>4. \A q \in Requests : SteadyRequest(q)
  BY <1>1, <1>2, <1>3 DEF SteadyRequest, Decides
<1>5. \A r \in Runs : SteadyRun(r) /\ Quiescent(r)
  BY <1>1 DEF SteadyRun, Quiescent, Terminal
<1>6. \A m \in Msgs : SteadyMessage(m)
  BY <1>1 DEF SteadyMessage
<1>7. \A d \in Slots : SteadyRecord(delivery[d]) /\ HoldsMessage(delivery[d])
  BY <1>1 DEF SteadyRecord, HoldsMessage, Handling
<1>8. OneJobEach /\ OneDeliveryEach
  BY <1>1, <1>2 DEF OneJobEach, OneDeliveryEach
<1>9. QED
  BY <1>4, <1>5, <1>6, <1>7, <1>8 DEF SteadyInv

\* A call that costs no fault is applied and raises nothing.
LEMMA RemoteCalm ==
    ASSUME NEW applied \in BOOLEAN, NEW err \in Errors, Remote(applied, err),
           faultsLeft \in Nat, faultsLeft' = faultsLeft
    PROVE  applied /\ err = "none"
BY DEF Remote

\* Two requests of one run that queue it, or of which one read it waiting and
\* the other queues it or read it waiting too, are decisions that raced.
LEMMA TwoQueuersRace ==
    ASSUME NEW p \in Requests, NEW q \in Requests, p # q, ReqRun[p] = ReqRun[q],
           SteadyRequest(p), SteadyRequest(q),
           Queues(p) \/ Decides(p), Queues(q) \/ Decides(q)
    PROVE  RacedDecisions(ReqRun[q])
<1>1. ASSUME NEW s \in Requests, NEW t \in Requests, s # t, ReqRun[s] = ReqRun[t],
             ReqKind[s] \in {"submit", "bundle", "client"}, SteadyRequest(t), Decides(t)
      PROVE  FALSE
  <2>1. PICK b \in Requests : ReqRun[b] = ReqRun[t] /\ ReqKind[b] = "spawnBundle"
    BY <1>1 DEF SteadyRequest, NeedsApproval
  <2>2. b = s
    BY <1>1, <2>1 DEF SubmitKinds
  <2>3. QED
    BY <1>1, <2>1, <2>2
<1>2. CASE Decides(p) /\ Decides(q)
  BY <1>2 DEF RacedDecisions, Decides
<1>3. CASE Decides(p) /\ ~Decides(q)
  BY <1>1, <1>3 DEF Queues
<1>4. CASE ~Decides(p) /\ Decides(q)
  BY <1>1, <1>4 DEF Queues
<1>5. CASE ~Decides(p) /\ ~Decides(q)
  BY <1>5 DEF Queues, SubmitKinds
<1>6. QED
  BY <1>2, <1>3, <1>4, <1>5

\* A request that still has to queue its run is one that queues it.
LEMMA StillQueuesQueues ==
    ASSUME NEW q \in Requests, ApproveSound(q), StillQueues(q)
    PROVE  Queues(q)
BY DEF StillQueues, Queues, ApproveSound, Decides

\* Once a run has its job, no request is left to queue it or to decide on it.
LEMMA JobIsLast ==
    ASSUME SteadyInv, ApprovalInv, NEW r \in Runs, NEW m \in Msgs, JobOf(m, r),
           ~RacedDecisions(r), NEW q \in Requests, ReqRun[q] = r
    PROVE  ~StillQueues(q) /\ ~(request[q].pc = "put" /\ Decides(q))
<1>1. PICK p \in Requests : Queues(p) /\ ReqRun[p] = r /\ request[p].pc = "done"
  BY DEF SteadyInv, SteadyMessage, JobOf
<1>2. SteadyRequest(p) /\ SteadyRequest(q) /\ ApproveSound(q)
  BY DEF SteadyInv, ApprovalInv
<1>3. CASE StillQueues(q)
  BY <1>1, <1>2, <1>3, StillQueuesQueues, TwoQueuersRace DEF StillQueues
<1>4. CASE request[q].pc = "put" /\ Decides(q)
  BY <1>1, <1>2, <1>4, TwoQueuersRace
<1>5. QED
  BY <1>3, <1>4

\* A step of one delivery.  It stays with its message or, on returning, drops
\* it; it writes nothing or a snapshot of its run; an ended run keeps its
\* status, and a terminal snapshot comes from an ended run.
LEMMA SteadyDeliveryStep ==
    ASSUME Typed, SteadyInv, ApprovalInv, UNCHANGED request,
           NEW d \in Slots, NEW rec, Becomes(d, rec),
           delivery[d].pc # "free", rec.pc # "free",
           rec.msg = delivery[d].msg, rec.run = delivery[d].run, SteadyRecord(rec),
           \/ /\ UNCHANGED workStream
              /\ rec.pc = "done" <=> delivery[d].pc = "done"
              /\ rec.pc \in Handling <=> delivery[d].pc \in Handling
           \/ /\ workStream' = [workStream EXCEPT ![rec.msg].state = "gone"]
              /\ rec.pc = "done" /\ delivery[d].pc \in Handling,
           delivery[d].pc \in Ended => rec.pc \in Ended /\ rec.status = delivery[d].status,
           \/ UNCHANGED runsKv
           \/ \E snap :
                /\ rec.run \in Runs /\ runsKv' = [runsKv EXCEPT ![rec.run] = snap]
                /\ snap.status # "PENDING_APPROVAL"
                /\ snap.status \in Terminal =>
                    rec.pc \in Ended /\ (rec.status \in Terminal => rec.status = snap.status)
    PROVE  SteadyInv'
<1>1. /\ runsKv \in [Runs -> Snapshot] /\ workStream \in [Msgs -> Message]
      /\ delivery \in [Slots -> DeliveryRecord]
  BY DEF Typed, TypeOK, StoreTypeOK, WorkerTypeOK
<1>2. /\ delivery'[d] = rec
      /\ \A e \in Slots : e # d => delivery'[e] = delivery[e]
  BY <1>1 DEF Becomes
<1>3. /\ HoldsMessage(delivery[d]) /\ rec.msg \in Msgs
      /\ rec.run = workStream[rec.msg].run
      /\ workStream[rec.msg].state \in {"gone", "out"}
  BY DEF SteadyInv, HoldsMessage
<1>4. \A m \in Msgs : /\ m # rec.msg => workStream'[m] = workStream[m]
                      /\ workStream'[m].run = workStream[m].run
                      /\ workStream'[m].state \in {workStream[m].state, "gone"}
                      /\ workStream'[m].state = "unused" <=> workStream[m].state = "unused"
  BY <1>1, <1>3 DEF Message
<1>5. \A m \in Msgs : \A r : JobOf(m, r)' <=> JobOf(m, r)
  BY <1>4 DEF JobOf
<1>6. rec.run \in Runs => JobOf(rec.msg, rec.run)
  BY <1>3 DEF JobOf
<1>7. \A r : RacedDecisions(r)' <=> RacedDecisions(r)
  BY DEF RacedDecisions
<1>8. \A r \in Runs : r # rec.run => runsKv'[r] = runsKv[r]
  BY <1>1
<1>9. ASSUME NEW q \in Requests PROVE SteadyRequest(q)'
  <2>1. SteadyRequest(q)
    BY DEF SteadyInv
  <2>2. Unsubmitted(q) => runsKv'[ReqRun[q]] = runsKv[ReqRun[q]]
    <3>1. Unsubmitted(q) => ReqRun[q] # rec.run
      BY <1>3, <1>6, <2>1 DEF SteadyRequest
    <3>2. QED
      BY <1>8, <3>1
  <2>3. QED
    BY <1>5, <2>1, <2>2 DEF SteadyRequest, Unsubmitted, Decides, NeedsApproval
<1>10. ASSUME NEW r \in Runs PROVE SteadyRun(r)'
  <2>1. runsKv'[r].status = "PENDING_APPROVAL" => runsKv[r].status = "PENDING_APPROVAL"
    BY <1>1, <1>8
  <2>2. QED
    BY <2>1 DEF SteadyInv, SteadyRun, NeedsApproval
<1>11. ASSUME NEW m \in Msgs PROVE SteadyMessage(m)'
  <2>1. SteadyMessage(m)
    BY DEF SteadyInv
  <2>2. workStream[m].state # "unused" /\ workStream[m].run # NoRun =>
            \E q \in Requests : /\ Queues(q) /\ ReqRun[q] = workStream[m].run
                                /\ request[q].pc = "done"
    BY <2>1 DEF SteadyMessage
  <2>3. workStream'[m].state # "unused" /\ workStream'[m].run # NoRun =>
            \E q \in Requests : /\ Queues(q)' /\ ReqRun[q] = workStream'[m].run
                                /\ request'[q].pc = "done"
    BY <1>4, <2>2 DEF Queues, Decides
  <2>4. ASSUME workStream'[m].state = "out"
        PROVE  \E e \in Slots : delivery'[e].pc \in Handling /\ delivery'[e].msg = m
    <3>1. PICK e \in Slots : delivery[e].pc \in Handling /\ delivery[e].msg = m
      BY <1>4, <2>1, <2>4 DEF SteadyMessage
    <3>2. CASE e # d
      BY <1>2, <3>1, <3>2
    <3>3. CASE e = d
      <4>1. workStream'[rec.msg].state # "gone" /\ rec.msg = m
        BY <2>4, <3>1, <3>3
      <4>2. UNCHANGED workStream /\ (rec.pc \in Handling <=> delivery[d].pc \in Handling)
        BY <1>1, <1>3, <4>1 DEF Message
      <4>3. QED
        BY <1>2, <3>1, <3>3, <4>1, <4>2
    <3>4. QED
      BY <3>2, <3>3
  <2>5. QED
    BY <2>3, <2>4 DEF SteadyMessage
<1>12. ASSUME NEW e \in Slots PROVE (SteadyRecord(delivery[e]) /\ HoldsMessage(delivery[e]))'
  <2>1. CASE e = d
    <3>1. workStream'[rec.msg].run = workStream[rec.msg].run
            /\ workStream'[rec.msg].state = IF rec.pc = "done" THEN "gone" ELSE "out"
      BY <1>1, <1>3, <1>4 DEF HoldsMessage, Message
    <3>2. HoldsMessage(rec)'
      BY <1>3, <3>1 DEF HoldsMessage
    <3>3. QED
      BY <1>2, <2>1, <3>2 DEF HoldsMessage, SteadyRecord
  <2>2. CASE e # d
    <3>1. SteadyRecord(delivery[e]) /\ HoldsMessage(delivery[e])
      BY DEF SteadyInv
    <3>2. delivery[e].pc # "free" => delivery[e].msg # rec.msg
      BY <2>2 DEF SteadyInv, OneDeliveryEach
    <3>3. delivery[e].pc # "free" =>
            delivery[e].msg \in Msgs /\ workStream'[delivery[e].msg] = workStream[delivery[e].msg]
      BY <1>4, <3>1, <3>2 DEF HoldsMessage
    <3>4. QED
      BY <1>2, <2>2, <3>1, <3>3 DEF HoldsMessage, SteadyRecord
  <2>3. QED
    BY <2>1, <2>2
<1>13. OneJobEach' /\ OneDeliveryEach'
  <2>1. \A e \in Slots : /\ delivery'[e].pc # "free" => delivery[e].pc # "free"
                         /\ delivery'[e].msg = delivery[e].msg
    BY <1>2
  <2>2. QED
    BY <1>5, <1>7, <2>1 DEF SteadyInv, OneJobEach, OneDeliveryEach
<1>14. ASSUME NEW r \in Runs, ~RacedDecisions(r), runsKv'[r].status \in Terminal
       PROVE  Over(r)'
  <2>1. CASE runsKv'[r] = runsKv[r]
    <3>1. Over(r)
      BY <1>14, <2>1 DEF SteadyInv, Quiescent
    <3>2. \A m \in Msgs : JobOf(m, r) => workStream'[m].state # "ready"
      BY <1>4, <3>1 DEF Over
    <3>3. ASSUME NEW e \in Slots, delivery'[e].pc # "free", delivery'[e].run = r
          PROVE  /\ delivery'[e].pc \in Ended
                 /\ delivery'[e].status \in Terminal => delivery'[e].status = runsKv'[r].status
      <4>1. CASE e # d
        BY <1>2, <2>1, <3>1, <3>3, <4>1 DEF Over
      <4>2. CASE e = d
        BY <1>2, <2>1, <3>1, <3>3, <4>2 DEF Over
      <4>3. QED
        BY <4>1, <4>2
    <3>4. QED
      BY <1>5, <3>1, <3>2, <3>3 DEF Over, StillQueues, Decides
  <2>2. CASE runsKv'[r] # runsKv[r]
    <3>1. PICK snap : /\ runsKv' = [runsKv EXCEPT ![rec.run] = snap]
                      /\ snap.status \in Terminal =>
                            /\ rec.pc \in Ended
                            /\ rec.status \in Terminal => rec.status = snap.status
      BY <2>2
    <3>2. r = rec.run /\ runsKv'[r] = snap
      BY <1>1, <2>2, <3>1
    <3>3. ASSUME NEW m \in Msgs, JobOf(m, r) PROVE workStream'[m].state # "ready"
      <4>1. m = rec.msg
        BY <1>3, <1>6, <1>14, <3>2, <3>3 DEF SteadyInv, OneJobEach
      <4>2. QED
        BY <1>3, <1>4, <4>1
    <3>4. ASSUME NEW q \in Requests, ReqRun[q] = r
          PROVE  ~StillQueues(q) /\ ~(request[q].pc = "put" /\ Decides(q))
      BY <1>3, <1>6, <1>14, <3>2, <3>4, JobIsLast
    <3>5. ASSUME NEW e \in Slots, delivery'[e].pc # "free", delivery'[e].run = r
          PROVE  /\ delivery'[e].pc \in Ended
                 /\ delivery'[e].status \in Terminal => delivery'[e].status = runsKv'[r].status
      <4>1. CASE e = d
        BY <1>2, <1>14, <3>1, <3>2, <4>1
      <4>2. CASE e # d
        <5>1. delivery[e].pc # "free" /\ delivery[e].run = r
          BY <1>2, <3>5, <4>2
        <5>2. /\ delivery[e].msg \in Msgs /\ workStream[delivery[e].msg].run = r
              /\ workStream[delivery[e].msg].state # "unused"
          BY <5>1 DEF SteadyInv, HoldsMessage
        <5>3. delivery[e].msg = rec.msg
          BY <1>3, <1>6, <1>14, <3>2, <5>2 DEF SteadyInv, OneJobEach, JobOf
        <5>4. QED
          BY <4>2, <5>1, <5>3 DEF SteadyInv, OneDeliveryEach
      <4>3. QED
        BY <4>1, <4>2
    <3>6. QED
      BY <1>5, <3>3, <3>4, <3>5 DEF Over, StillQueues, Decides
  <2>3. QED
    BY <2>1, <2>2
<1>15. QED
  BY <1>7, <1>9, <1>10, <1>11, <1>12, <1>13, <1>14 DEF SteadyInv, Quiescent

\* The steps of a handler.
LEMMA HandlerSteady ==
    ASSUME Typed, QueueInv, ApprovalInv, SteadyInv, UNCHANGED <<request, faultsLeft>>,
           NEW d \in Slots, HandlerStep(d)
    PROVE  SteadyInv'
<1> DEFINE rec == delivery[d]
<1>1. /\ rec \in DeliveryRecord /\ WellFormed(rec) /\ DeliverySound(rec)
      /\ SteadyRecord(rec) /\ HoldsMessage(rec) /\ faultsLeft \in Nat
      /\ runsKv \in [Runs -> Snapshot]
  BY DEF Typed, TypeOK, StoreTypeOK, WellFormed, QueueInv, SteadyInv
<1>2. \A applied \in BOOLEAN, err \in Errors : Remote(applied, err) => applied /\ err = "none"
  BY <1>1, RemoteCalm
<1>3. CASE DiscardInvalid(d)
  <2>1. /\ rec.pc = "fetched" /\ Becomes(d, Returned(rec)) /\ UNCHANGED runsKv
        /\ workStream' = [workStream EXCEPT ![rec.msg].state = "gone"]
    BY <1>2, <1>3 DEF DiscardInvalid, RemoveMsg
  <2> DEFINE next == Returned(rec)
  <2>2. /\ next.pc = "done" /\ next.msg = rec.msg /\ next.run = rec.run
        /\ next.heartbeat = rec.heartbeat /\ next.flush = rec.flush
    BY <1>1 DEF Returned, DeliveryRecord
  <2>3. Becomes(d, next)
    BY <2>1
  <2> HIDE DEF next
  <2>4. SteadyRecord(next)
    BY <1>1, <2>1, <2>2 DEF SteadyRecord, Handling
  <2>5. QED
    BY <2>1, <2>2, <2>3, <2>4, SteadyDeliveryStep DEF Ended, Handling
<1>4. CASE Ack(d)
  <2>1. rec.pc = "settled" /\ UNCHANGED runsKv
    BY <1>1, <1>4 DEF Ack, SteadyRecord
  <2>2. /\ Becomes(d, Returned(rec))
        /\ workStream' = [workStream EXCEPT ![rec.msg].state = "gone"]
    <3>1. CASE faultsLeft' = faultsLeft - 1
      <4>1. faultsLeft - 1 # faultsLeft
        BY <1>1
      <4>2. QED
        BY <3>1, <4>1
    <3>2. CASE \E applied \in BOOLEAN, err \in Errors :
            /\ Remote(applied, err) /\ RemoveMsg(rec.msg, applied)
            /\ Becomes(d, IF err # "none" /\ rec.pc = "settled"
                          THEN [rec EXCEPT !.pc = ErrorBranch(err)] ELSE Returned(rec))
      <4>1. PICK applied \in BOOLEAN, err \in Errors :
            /\ Remote(applied, err) /\ RemoveMsg(rec.msg, applied)
            /\ Becomes(d, IF err # "none" /\ rec.pc = "settled"
                          THEN [rec EXCEPT !.pc = ErrorBranch(err)] ELSE Returned(rec))
        BY <3>2
      <4>2. applied = TRUE /\ err = "none"
        BY <1>2, <4>1
      <4>3. QED
        BY <4>1, <4>2 DEF RemoveMsg
    <3>3. QED
      BY <1>4, <3>1, <3>2 DEF Ack
  <2> DEFINE next == Returned(rec)
  <2>3. /\ next.pc = "done" /\ next.msg = rec.msg /\ next.run = rec.run
        /\ next.heartbeat = rec.heartbeat /\ next.flush = rec.flush /\ next.status = rec.status
    BY <1>1 DEF Returned, DeliveryRecord
  <2>4. Becomes(d, next)
    BY <2>2
  <2> HIDE DEF next
  <2>5. SteadyRecord(next)
    BY <1>1, <2>1, <2>3 DEF SteadyRecord, Handling
  <2>6. QED
    BY <2>1, <2>2, <2>3, <2>4, <2>5, SteadyDeliveryStep DEF Ended, Handling
<1>5. CASE Nak(d) \/ RecordFailure(d)
  BY <1>1, <1>5 DEF Nak, RecordFailure, SteadyRecord
<1>6. CASE ReadSnapshot(d)
  <2>1. PICK c, a : Becomes(d, [rec EXCEPT !.pc = "resolve", !.status = FreshStatus,
                                    !.cancel = c, !.approval = a])
    BY <1>6 DEF ReadSnapshot
  <2>2. rec.pc = "fetched" /\ UNCHANGED <<runsKv, workStream>>
    BY <1>6 DEF ReadSnapshot
  <2> DEFINE next == [rec EXCEPT !.pc = "resolve", !.status = FreshStatus,
                                 !.cancel = c, !.approval = a]
  <2>3. /\ next.pc = "resolve" /\ next.msg = rec.msg /\ next.run = rec.run
        /\ next.heartbeat = rec.heartbeat /\ next.flush = rec.flush
        /\ next.progress = rec.progress /\ next.status = "PENDING"
    BY <1>1 DEF DeliveryRecord, FreshStatus
  <2>4. Becomes(d, next)
    BY <2>1
  <2> HIDE DEF next
  <2>5. SteadyRecord(next)
    BY <1>1, <2>2, <2>3 DEF SteadyRecord, Handling
  <2>6. QED
    BY <2>2, <2>3, <2>4, <2>5, SteadyDeliveryStep DEF Ended, Handling
<1>7. CASE FailResolve(d)
  <2>1. /\ rec.pc = "resolve" /\ UNCHANGED workStream
        /\ PutRun(rec.run, Snap("FAILED", FALSE, rec.approval), TRUE)
        /\ Becomes(d, [rec EXCEPT !.pc = "settled"])
    <3>1. PICK applied \in BOOLEAN, err \in Errors :
            /\ Remote(applied, err)
            /\ PutRun(rec.run, Snap("FAILED", FALSE, rec.approval), applied)
            /\ Becomes(d, [rec EXCEPT !.pc =
                            IF err = "none" THEN "settled" ELSE ErrorBranch(err)])
      BY <1>7 DEF FailResolve
    <3>2. applied = TRUE /\ err = "none"
      BY <1>2, <3>1
    <3>3. QED
      BY <1>7, <3>1, <3>2 DEF FailResolve
  <2> DEFINE next == [rec EXCEPT !.pc = "settled"]
             snap == Snap("FAILED", FALSE, rec.approval)
  <2>2. /\ next.pc = "settled" /\ next.msg = rec.msg /\ next.run = rec.run
        /\ next.heartbeat = rec.heartbeat /\ next.flush = rec.flush
        /\ next.progress = rec.progress /\ next.status = rec.status
    BY <1>1 DEF DeliveryRecord
  <2>3. Becomes(d, next) /\ runsKv' = [runsKv EXCEPT ![rec.run] = snap] /\ rec.run \in Runs
    BY <1>1, <2>1 DEF PutRun, WellFormed, Handling
  <2>4. snap.status = "FAILED"
    BY DEF Snap
  <2> HIDE DEF next, snap
  <2>5. SteadyRecord(next) /\ next.status \notin Terminal
    BY <1>1, <2>1, <2>2 DEF SteadyRecord, Handling, Terminal
  <2>6. QED
    BY <2>1, <2>2, <2>3, <2>4, <2>5, SteadyDeliveryStep DEF Ended, Handling
<1>8. CASE TakeOwnership(d)
  <2>1. /\ rec.pc = "resolve" /\ UNCHANGED workStream
        /\ PutRun(rec.run, LiveSnapshot(d), TRUE)
        /\ Becomes(d, [rec EXCEPT !.heartbeat = "idle", !.pc = "start"])
    <3>1. PICK applied \in BOOLEAN, err \in Errors :
            /\ Remote(applied, err)
            /\ PutRun(rec.run, LiveSnapshot(d), applied)
            /\ Becomes(d, [rec EXCEPT !.heartbeat = "idle",
                            !.pc = IF err = "none" THEN "start" ELSE ErrorBranch(err)])
      BY <1>8 DEF TakeOwnership
    <3>2. applied = TRUE /\ err = "none"
      BY <1>2, <3>1
    <3>3. QED
      BY <1>8, <3>1, <3>2 DEF TakeOwnership
  <2> DEFINE next == [rec EXCEPT !.heartbeat = "idle", !.pc = "start"]
             snap == LiveSnapshot(d)
  <2>2. /\ next.pc = "start" /\ next.msg = rec.msg /\ next.run = rec.run
        /\ next.heartbeat = "idle" /\ next.flush = rec.flush
        /\ next.progress = rec.progress /\ next.status = rec.status
    BY <1>1 DEF DeliveryRecord
  <2>3. Becomes(d, next) /\ runsKv' = [runsKv EXCEPT ![rec.run] = snap] /\ rec.run \in Runs
    BY <1>1, <2>1 DEF PutRun, WellFormed, Handling
  <2>4. snap.status \in {"CANCELLING", "PENDING"}
    BY <1>1, <2>1 DEF LiveSnapshot, ContextSnapshot, Snap, SteadyRecord
  <2> HIDE DEF next, snap
  <2>5. SteadyRecord(next)
    BY <1>1, <2>1, <2>2 DEF SteadyRecord, Handling
  <2>6. QED
    BY <2>1, <2>2, <2>3, <2>4, <2>5, SteadyDeliveryStep DEF Ended, Handling, Terminal
<1>9. CASE Finalize(d)
  <2>1. /\ rec.pc = "final" /\ UNCHANGED workStream /\ rec.status \in Terminal
        /\ PutRun(rec.run, ContextSnapshot(d), TRUE)
        /\ Becomes(d, [rec EXCEPT !.heartbeat = "off", !.pc = "settled"])
    <3>1. rec.heartbeat \notin {"NatsError", "Exception"} /\ rec.pc = "final"
      BY <1>1, <1>9 DEF Finalize, SteadyRecord
    <3>2. PICK applied \in BOOLEAN, err \in Errors :
            /\ Remote(applied, err)
            /\ PutRun(rec.run, ContextSnapshot(d), applied)
            /\ Becomes(d, [rec EXCEPT !.heartbeat = "off",
                            !.pc = IF err = "none" THEN "settled" ELSE ErrorBranch(err)])
      BY <1>9, <3>1 DEF Finalize
    <3>3. applied = TRUE /\ err = "none"
      BY <1>2, <3>2
    <3>4. QED
      BY <1>1, <1>9, <3>2, <3>3 DEF Finalize, DeliverySound
  <2> DEFINE next == [rec EXCEPT !.heartbeat = "off", !.pc = "settled"]
             snap == ContextSnapshot(d)
  <2>2. /\ next.pc = "settled" /\ next.msg = rec.msg /\ next.run = rec.run
        /\ next.heartbeat = "off" /\ next.flush = rec.flush
        /\ next.progress = rec.progress /\ next.status = rec.status
    BY <1>1 DEF DeliveryRecord
  <2>3. Becomes(d, next) /\ runsKv' = [runsKv EXCEPT ![rec.run] = snap] /\ rec.run \in Runs
    BY <1>1, <2>1 DEF PutRun, WellFormed, Handling
  <2>4. snap.status = rec.status
    BY DEF ContextSnapshot, Snap
  <2> HIDE DEF next, snap
  <2>5. SteadyRecord(next)
    BY <1>1, <2>1, <2>2 DEF SteadyRecord, Handling
  <2>6. QED
    BY <2>1, <2>2, <2>3, <2>4, <2>5, SteadyDeliveryStep DEF Ended, Handling, Terminal
<1>10. QED
  BY <1>3, <1>4, <1>5, <1>6, <1>7, <1>8, <1>9 DEF HandlerStep

\* The steps of the tasks beside the handler and of the engine.
LEMMA BackgroundSteady ==
    ASSUME Typed, QueueInv, ApprovalInv, SteadyInv, UNCHANGED <<request, faultsLeft>>,
           NEW d \in Slots, BackgroundStep(d) \/ EngineStep(d) \/ EngineEvent(d)
    PROVE  SteadyInv'
<1> DEFINE rec == delivery[d]
<1>1. /\ rec \in DeliveryRecord /\ WellFormed(rec) /\ DeliverySound(rec)
      /\ SteadyRecord(rec) /\ HoldsMessage(rec) /\ faultsLeft \in Nat
      /\ runsKv \in [Runs -> Snapshot]
  BY DEF Typed, TypeOK, StoreTypeOK, WellFormed, QueueInv, SteadyInv
<1>2. \A applied \in BOOLEAN, err \in Errors : Remote(applied, err) => applied /\ err = "none"
  BY <1>1, RemoteCalm
<1>3. CASE HeartbeatRead(d)
  <2>1. rec.heartbeat = "idle" /\ rec.pc \in {"start", "engine", "final"}
          /\ UNCHANGED <<runsKv, workStream>>
    BY <1>1, <1>3 DEF HeartbeatRead, SteadyRecord, DeliveryRecord, Handling
  <2>2. PICK c : Becomes(d, [rec EXCEPT !.heartbeat = "read", !.cancel = c,
                                        !.status = StatusAfterBeat(d, c)])
    BY <1>3 DEF HeartbeatRead
  <2> DEFINE next == [rec EXCEPT !.heartbeat = "read", !.cancel = c,
                                 !.status = StatusAfterBeat(d, c)]
  <2>3. /\ next.pc = rec.pc /\ next.msg = rec.msg /\ next.run = rec.run
        /\ next.heartbeat = "read" /\ next.flush = rec.flush
        /\ next.progress = rec.progress /\ next.status = StatusAfterBeat(d, c)
    BY <1>1 DEF DeliveryRecord
  <2>4. next.status = rec.status \/ (rec.pc = "engine" /\ next.status = "CANCELLING")
    BY <2>3 DEF StatusAfterBeat
  <2>5. Becomes(d, next)
    BY <2>2
  <2> HIDE DEF next
  <2>6. SteadyRecord(next)
    BY <1>1, <2>1, <2>3, <2>4 DEF SteadyRecord
  <2>7. QED
    BY <2>1, <2>3, <2>4, <2>5, <2>6, SteadyDeliveryStep DEF Ended, Handling
<1>4. CASE HeartbeatPut(d)
  <2>1. rec.heartbeat = "read" /\ rec.pc \in {"start", "engine", "final"} /\ UNCHANGED workStream
    BY <1>1, <1>4 DEF HeartbeatPut, SteadyRecord, DeliveryRecord, Handling
  <2>2. /\ PutRun(rec.run, LiveSnapshot(d), TRUE)
        /\ Becomes(d, [rec EXCEPT !.heartbeat = "idle"])
    <3>1. PICK applied \in BOOLEAN, err \in Errors :
            /\ Remote(applied, err)
            /\ PutRun(rec.run, LiveSnapshot(d), applied)
            /\ Becomes(d, [rec EXCEPT !.heartbeat = IF err = "none" THEN "idle" ELSE err])
      BY <1>4 DEF HeartbeatPut
    <3>2. applied = TRUE /\ err = "none"
      BY <1>2, <3>1
    <3>3. QED
      BY <3>1, <3>2
  <2> DEFINE next == [rec EXCEPT !.heartbeat = "idle"]
             snap == LiveSnapshot(d)
  <2>3. /\ next.pc = rec.pc /\ next.msg = rec.msg /\ next.run = rec.run
        /\ next.heartbeat = "idle" /\ next.flush = rec.flush
        /\ next.progress = rec.progress /\ next.status = rec.status
    BY <1>1 DEF DeliveryRecord
  <2>4. Becomes(d, next) /\ runsKv' = [runsKv EXCEPT ![rec.run] = snap] /\ rec.run \in Runs
    BY <1>1, <2>1, <2>2 DEF PutRun, WellFormed
  <2>5. /\ snap.status \in {"CANCELLING", rec.status}
        /\ rec.status \in Terminal => snap.status = rec.status
    BY DEF LiveSnapshot, ContextSnapshot, Snap
  <2>6. /\ rec.pc = "final" => rec.status \in Terminal
        /\ rec.pc # "final" => rec.status \in {"PENDING", "RUNNING", "CANCELLING"}
    BY <1>1, <2>1 DEF SteadyRecord, DeliverySound
  <2> HIDE DEF next, snap
  <2>7. SteadyRecord(next)
    BY <1>1, <2>1, <2>3 DEF SteadyRecord
  <2>8. snap.status # "PENDING_APPROVAL"
    BY <2>5, <2>6 DEF Terminal
  <2>9. snap.status \in Terminal => rec.pc = "final" /\ rec.status = snap.status
    BY <2>5, <2>6 DEF Terminal
  <2>10. QED
    BY <2>1, <2>3, <2>4, <2>7, <2>8, <2>9, SteadyDeliveryStep DEF Ended, Handling
<1>5. CASE Flush(d)
  <2>1. /\ rec.flush \in {"scheduled", "dirty"} /\ UNCHANGED workStream
        /\ rec.pc \in {"engine", "final", "settled", "done"}
    BY <1>1, <1>5 DEF Flush, Flushing, SteadyRecord, DeliveryRecord, Handling
  <2>2. PICK f \in {"idle", "scheduled"} :
          /\ PutRun(rec.run, ContextSnapshot(d), TRUE)
          /\ Becomes(d, [rec EXCEPT !.flush = f])
    <3>1. PICK applied \in BOOLEAN, err \in Errors :
            /\ Remote(applied, err)
            /\ PutRun(rec.run, ContextSnapshot(d), applied)
            /\ Becomes(d, [rec EXCEPT !.flush =
                            IF @ = "scheduled" THEN "idle"
                            ELSE IF err = "none" THEN "scheduled" ELSE "stale"])
      BY <1>5 DEF Flush
    <3>2. applied = TRUE /\ err = "none"
      BY <1>2, <3>1
    <3>3. QED
      BY <3>1, <3>2
  <2> DEFINE next == [rec EXCEPT !.flush = f]
             snap == ContextSnapshot(d)
  <2>3. /\ next.pc = rec.pc /\ next.msg = rec.msg /\ next.run = rec.run
        /\ next.heartbeat = rec.heartbeat /\ next.flush = f
        /\ next.progress = rec.progress /\ next.status = rec.status
    BY <1>1 DEF DeliveryRecord
  <2>4. Becomes(d, next) /\ runsKv' = [runsKv EXCEPT ![rec.run] = snap] /\ rec.run \in Runs
    BY <1>1, <2>1, <2>2 DEF PutRun, WellFormed
  <2>5. snap.status = rec.status
    BY DEF ContextSnapshot, Snap
  <2>6. \/ rec.pc = "engine" /\ rec.status \in {"RUNNING", "CANCELLING"}
        \/ rec.pc \in Ended /\ rec.status \in Terminal
    BY <1>1, <2>1 DEF SteadyRecord, DeliverySound, Ended
  <2> HIDE DEF next, snap
  <2>7. SteadyRecord(next)
    BY <1>1, <2>1, <2>2, <2>3 DEF SteadyRecord
  <2>8. snap.status # "PENDING_APPROVAL" /\ (snap.status \in Terminal => rec.pc \in Ended)
    BY <2>5, <2>6 DEF Terminal
  <2>9. QED
    BY <2>1, <2>3, <2>4, <2>5, <2>7, <2>8, SteadyDeliveryStep DEF Handling
<1>6. CASE EngineStep(d) \/ EngineEvent(d)
  <2>1. rec.pc \in {"start", "engine"} /\ UNCHANGED <<runsKv, workStream>>
    BY <1>6 DEF EngineStep, EngineStart, EngineComplete, EngineCancelled, EngineFail,
                EngineEnd, EngineEvent, storeVars
  <2>2. MarkedDirty(rec.flush) \in {"scheduled", "dirty"}
    BY DEF MarkedDirty
  \* A step of the engine to pc and status s.
  <2>3. ASSUME NEW pc \in {"engine", "final"}, NEW s, NEW f \in {"scheduled", "dirty"},
               pc = "engine" => s \in {"RUNNING", "CANCELLING"},
               NEW next, Becomes(d, next), next.pc = pc, next.status = s, next.flush = f,
               next.msg = rec.msg, next.run = rec.run, next.heartbeat = rec.heartbeat,
               next.progress = rec.progress
        PROVE  SteadyInv'
    <3>1. SteadyRecord(next)
      BY <1>1, <2>1, <2>3 DEF SteadyRecord, Handling
    <3>2. QED
      BY <2>1, <2>3, <3>1, SteadyDeliveryStep DEF Ended, Handling
  <2>4. CASE EngineEvent(d)
    <3>1. rec.status \in {"RUNNING", "CANCELLING"} /\ rec.pc = "engine"
      BY <1>1, <2>4 DEF EngineEvent, SteadyRecord
    <3> DEFINE next == [rec EXCEPT !.flush = MarkedDirty(@)]
    <3>2. /\ next.pc = "engine" /\ next.status = rec.status /\ next.flush = MarkedDirty(rec.flush)
          /\ next.msg = rec.msg /\ next.run = rec.run /\ next.heartbeat = rec.heartbeat
          /\ next.progress = rec.progress
      BY <1>1, <3>1 DEF DeliveryRecord
    <3>3. Becomes(d, next)
      BY <2>4 DEF EngineEvent
    <3> HIDE DEF next
    <3>4. QED
      BY <2>2, <2>3, <3>1, <3>2, <3>3
  <2>5. ASSUME NEW pc \in {"engine", "final"}, NEW s, pc = "engine" => s = "RUNNING",
               Becomes(d, [rec EXCEPT !.pc = pc, !.status = s, !.flush = MarkedDirty(@)])
        PROVE  SteadyInv'
    <3> DEFINE next == [rec EXCEPT !.pc = pc, !.status = s, !.flush = MarkedDirty(@)]
    <3>1. /\ next.pc = pc /\ next.status = s /\ next.flush = MarkedDirty(rec.flush)
          /\ next.msg = rec.msg /\ next.run = rec.run /\ next.heartbeat = rec.heartbeat
          /\ next.progress = rec.progress
      BY <1>1 DEF DeliveryRecord
    <3>2. Becomes(d, next)
      BY <2>5
    <3> HIDE DEF next
    <3>3. QED
      BY <2>2, <2>3, <2>5, <3>1, <3>2
  <2>6. CASE EngineStep(d)
    <3>1. CASE EngineStart(d)
      BY <2>5, <3>1 DEF EngineStart
    <3>2. CASE \E s : EngineEnd(d, s)
      BY <2>5, <3>2 DEF EngineEnd
    <3>3. QED
      BY <2>6, <3>1, <3>2 DEF EngineStep, EngineComplete, EngineCancelled, EngineFail
  <2>7. QED
    BY <1>6, <2>4, <2>6
<1>7. QED
  BY <1>3, <1>4, <1>5, <1>6 DEF BackgroundStep


\* A fetched message was waiting, so its run has not ended, and no other
\* delivery holds it.
LEMMA FetchSteady ==
    ASSUME Typed, SteadyInv, UNCHANGED request,
           NEW d \in Slots, NEW w \in Workers, NEW m \in Msgs, Fetch(d, w, m)
    PROVE  SteadyInv'
<1>1. workStream \in [Msgs -> Message] /\ delivery \in [Slots -> DeliveryRecord]
  BY DEF Typed, TypeOK, StoreTypeOK, WorkerTypeOK
<1>2. /\ delivery[d].pc = "free" /\ workStream[m].state = "ready" /\ UNCHANGED runsKv
      /\ workStream' = [workStream EXCEPT ![m].state = "out", ![m].tries = @ + 1]
      /\ Becomes(d, Fetched(w, m))
  BY DEF Fetch, Deliverable
<1> DEFINE next == Fetched(w, m)
<1>3. /\ next.pc = "fetched" /\ next.msg = m /\ next.run = workStream[m].run
      /\ next.heartbeat = "off" /\ next.flush = "idle" /\ next.progress = TRUE
  BY DEF Fetched, FreeSlot
<1>4. delivery'[d] = next /\ \A e \in Slots : e # d => delivery'[e] = delivery[e]
  BY <1>1, <1>2 DEF Becomes
<1> HIDE DEF next
<1>5. /\ workStream'[m].state = "out" /\ workStream'[m].run = workStream[m].run
      /\ \A k \in Msgs : k # m => workStream'[k] = workStream[k]
  BY <1>1, <1>2 DEF Message
<1>6. \A k \in Msgs : \A r : JobOf(k, r)' <=> JobOf(k, r)
  BY <1>2, <1>5 DEF JobOf
<1>7. \A r : RacedDecisions(r)' <=> RacedDecisions(r)
  BY DEF RacedDecisions
<1>8. \A e \in Slots : delivery[e].pc # "free" => delivery[e].msg \in Msgs /\ delivery[e].msg # m
  BY <1>2 DEF SteadyInv, HoldsMessage
<1>9. ASSUME NEW q \in Requests PROVE SteadyRequest(q)'
  BY <1>2, <1>6 DEF SteadyInv, SteadyRequest, Unsubmitted, Decides, NeedsApproval
<1>10. ASSUME NEW r \in Runs PROVE SteadyRun(r)'
  BY <1>2 DEF SteadyInv, SteadyRun, NeedsApproval
<1>11. ASSUME NEW k \in Msgs PROVE SteadyMessage(k)'
  <2>1. SteadyMessage(k)
    BY DEF SteadyInv
  <2>2. workStream'[k].state # "unused" /\ workStream'[k].run # NoRun =>
            \E q \in Requests : /\ Queues(q)' /\ ReqRun[q] = workStream'[k].run
                                /\ request'[q].pc = "done"
    BY <1>2, <1>5, <2>1 DEF SteadyMessage, Queues, Decides
  <2>3. ASSUME workStream'[k].state = "out"
        PROVE  \E e \in Slots : delivery'[e].pc \in Handling /\ delivery'[e].msg = k
    <3>1. CASE k = m
      BY <1>3, <1>4, <3>1 DEF Handling
    <3>2. CASE k # m
      <4>1. PICK e \in Slots : delivery[e].pc \in Handling /\ delivery[e].msg = k
        BY <1>5, <2>1, <2>3, <3>2 DEF SteadyMessage
      <4>2. e # d
        BY <1>2, <4>1 DEF Handling
      <4>3. QED
        BY <1>4, <4>1, <4>2
    <3>3. QED
      BY <3>1, <3>2
  <2>4. QED
    BY <2>2, <2>3 DEF SteadyMessage
<1>12. ASSUME NEW e \in Slots PROVE (SteadyRecord(delivery[e]) /\ HoldsMessage(delivery[e]))'
  <2>1. CASE e = d
    BY <1>3, <1>4, <1>5, <2>1 DEF SteadyRecord, HoldsMessage, Handling
  <2>2. CASE e # d
    BY <1>4, <1>5, <1>8, <2>2 DEF SteadyInv, SteadyRecord, HoldsMessage
  <2>3. QED
    BY <2>1, <2>2
<1>13. OneJobEach' /\ OneDeliveryEach'
  <2>1. OneJobEach'
    BY <1>6, <1>7 DEF SteadyInv, OneJobEach
  <2>2. OneDeliveryEach'
    BY <1>3, <1>4, <1>8 DEF SteadyInv, OneDeliveryEach
  <2>3. QED
    BY <2>1, <2>2
<1>14. ASSUME NEW r \in Runs, ~RacedDecisions(r), runsKv'[r].status \in Terminal
       PROVE  Over(r)'
  <2>1. Over(r)
    BY <1>2, <1>14 DEF SteadyInv, Quiescent
  <2>2. workStream[m].run # r
    BY <1>2, <2>1 DEF Over, JobOf
  <2>3. \A k \in Msgs : ~(JobOf(k, r) /\ workStream[k].state = "ready")'
    BY <1>5, <1>6, <2>1 DEF Over
  <2>4. \A e \in Slots : delivery'[e].pc # "free" /\ delivery'[e].run = r =>
            /\ delivery'[e].pc \in Ended
            /\ delivery'[e].status \in Terminal => delivery'[e].status = runsKv'[r].status
    BY <1>2, <1>3, <1>4, <2>1, <2>2 DEF Over
  <2>5. QED
    BY <2>1, <2>3, <2>4 DEF Over, StillQueues, Decides
<1>15. QED
  BY <1>7, <1>9, <1>10, <1>11, <1>12, <1>13, <1>14 DEF SteadyInv, Quiescent

\* A message that is out has a handler that reports progress on it.
LEMMA AckWaitCalm ==
    ASSUME SteadyInv, NEW m \in Msgs
    PROVE  ~AckWaitExpires(m)
<1>1. SUFFICES ASSUME AckWaitExpires(m) PROVE FALSE
  OBVIOUS
<1>2. PICK d \in Slots : delivery[d].pc \in Handling /\ delivery[d].msg = m
  BY <1>1 DEF AckWaitExpires, SteadyInv, SteadyMessage
<1>3. delivery[d].progress
  BY <1>2 DEF SteadyInv, SteadyRecord
<1>4. QED
  BY <1>1, <1>2, <1>3 DEF AckWaitExpires

LEMMA WorkerSteady ==
    ASSUME Typed, QueueInv, ApprovalInv, SteadyInv, WorkerNext, UNCHANGED <<request, faultsLeft>>
    PROVE  SteadyInv'
<1>1. faultsLeft - 1 # faultsLeft'
  BY DEF Typed, TypeOK, StoreTypeOK
<1>2. QED
  BY <1>1, AckWaitCalm, FetchSteady, HandlerSteady, BackgroundSteady
     DEF WorkerNext, LoseProgress, WorkerCrash


\* What a request read of a waiting run it goes on to know.
LEMMA RequestFrame ==
    ASSUME Typed, NEW q \in Requests, NEW rec, request' = [request EXCEPT ![q] = rec],
           Decides(q) => rec.seen.status = "PENDING_APPROVAL"
    PROVE  /\ request'[q] = rec
           /\ \A p \in Requests : p # q => request'[p] = request[p]
           /\ \A p \in Requests : Decides(p) => Decides(p)'
           /\ \A r : RacedDecisions(r) => RacedDecisions(r)'
           /\ \A r : r # ReqRun[q] => (RacedDecisions(r)' <=> RacedDecisions(r))
<1>1. request \in [Requests -> RequestRecord]
  BY DEF Typed, TypeOK, GatewayTypeOK
<1>2. request'[q] = rec /\ \A p \in Requests : p # q => request'[p] = request[p]
  BY <1>1
<1>3. \A p \in Requests : Decides(p) => Decides(p)'
  BY <1>2 DEF Decides
<1>4. QED
  BY <1>2, <1>3 DEF RacedDecisions, Decides

\* A step of a request that leaves the stream alone, and of the runs at most
\* its own.
LEMMA SteadyRequestStep ==
    ASSUME Typed, SteadyInv, UNCHANGED <<workStream, delivery>>,
           NEW q \in Requests, NEW rec, request' = [request EXCEPT ![q] = rec],
           request[q].pc # "done", rec.pc # "new",
           Decides(q) => rec.seen.status = "PENDING_APPROVAL",
           \A r \in Runs : r # ReqRun[q] => runsKv'[r] = runsKv[r],
           \A p \in Requests : p # q /\ ReqRun[p] = ReqRun[q] /\ Unsubmitted(p) =>
                runsKv'[ReqRun[q]].status = "absent" /\ rec.seen.status = "absent",
           SteadyRequest(q)', SteadyRun(ReqRun[q])', Quiescent(ReqRun[q])'
    PROVE  SteadyInv'
<1>1. /\ request'[q] = rec
      /\ \A p \in Requests : p # q => request'[p] = request[p]
      /\ \A r : RacedDecisions(r) => RacedDecisions(r)'
      /\ \A r : r # ReqRun[q] => (RacedDecisions(r)' <=> RacedDecisions(r))
  BY RequestFrame
<1>2. \A m \in Msgs : \A r : JobOf(m, r)' <=> JobOf(m, r)
  BY DEF JobOf
<1>3. ASSUME NEW p \in Requests PROVE SteadyRequest(p)'
  <2>1. SteadyRequest(p) /\ ReqRun[p] \in Runs
    BY DEF SteadyInv
  <2>2. CASE p = q
    BY <2>2
  <2>3. CASE p # q
    <3>1. request'[p] = request[p]
      BY <1>1, <2>3
    <3>2. ASSUME Unsubmitted(p)
          PROVE  /\ runsKv'[ReqRun[p]].status = "absent"
                 /\ \A s \in Requests : ReqRun[s] = ReqRun[p] => request'[s].seen.status = "absent"
      <4>1. /\ runsKv[ReqRun[p]].status = "absent"
            /\ \A s \in Requests : ReqRun[s] = ReqRun[p] => request[s].seen.status = "absent"
        BY <2>1, <3>2 DEF SteadyRequest
      <4>2. CASE ReqRun[p] = ReqRun[q]
        BY <1>1, <2>3, <3>2, <4>1, <4>2
      <4>3. CASE ReqRun[p] # ReqRun[q]
        BY <1>1, <2>1, <4>1, <4>3
      <4>4. QED
        BY <4>2, <4>3
    <3>3. QED
      BY <1>2, <2>1, <3>1, <3>2 DEF SteadyRequest, Unsubmitted, Decides, NeedsApproval
  <2>4. QED
    BY <2>2, <2>3
<1>4. ASSUME NEW r \in Runs PROVE (SteadyRun(r) /\ Quiescent(r))'
  <2>1. CASE r = ReqRun[q]
    BY <2>1
  <2>2. CASE r # ReqRun[q]
    <3>1. SteadyRun(r) /\ Quiescent(r) /\ runsKv'[r] = runsKv[r]
      BY <2>2 DEF SteadyInv
    <3>2. \A p \in Requests : ReqRun[p] = r => request'[p] = request[p]
      BY <1>1, <2>2
    <3>3. Over(r) => Over(r)'
      BY <1>2, <3>1, <3>2 DEF Over, StillQueues, Decides
    <3>4. QED
      BY <1>1, <2>2, <3>1, <3>3 DEF SteadyRun, Quiescent, NeedsApproval
  <2>3. QED
    BY <2>1, <2>2
<1>5. ASSUME NEW m \in Msgs PROVE SteadyMessage(m)'
  <2>1. SteadyMessage(m)
    BY DEF SteadyInv
  <2>2. \A p \in Requests : request[p].pc = "done" /\ Queues(p) =>
            (request[p].pc = "done")' /\ Queues(p)'
    BY <1>1 DEF Queues, Decides
  <2>3. QED
    BY <2>1, <2>2 DEF SteadyMessage
<1>6. \A d \in Slots : (SteadyRecord(delivery[d]) /\ HoldsMessage(delivery[d]))'
  BY DEF SteadyInv, SteadyRecord, HoldsMessage
<1>7. OneJobEach' /\ OneDeliveryEach'
  BY <1>1, <1>2 DEF SteadyInv, OneJobEach, OneDeliveryEach
<1>8. QED
  BY <1>3, <1>4, <1>5, <1>6, <1>7 DEF SteadyInv

\* The publish of the one request that queues the run.
LEMMA PublishSteady ==
    ASSUME Typed, ApprovalInv, SteadyInv, UNCHANGED <<runsKv, delivery>>,
           NEW q \in Requests, At(q, "publish", {"submit", "bundle", "client", "approve"}),
           PublishRun(ReqRun[q], TRUE), Answer(q, "accepted")
    PROVE  SteadyInv'
<1>1. /\ request \in [Requests -> RequestRecord] /\ workStream \in [Msgs -> Message]
      /\ ReqRun[q] \in Runs /\ SteadyRequest(q) /\ ApproveSound(q)
  BY DEF Typed, TypeOK, StoreTypeOK, GatewayTypeOK, SteadyInv, ApprovalInv
<1>2. request[q].pc = "publish" /\ StillQueues(q) /\ Queues(q)
  BY <1>1, StillQueuesQueues DEF At, StillQueues
<1> DEFINE rec == [request[q] EXCEPT !.pc = "done", !.answer = "accepted"]
<1>3. rec.pc = "done" /\ rec.seen = request[q].seen
  BY <1>1 DEF RequestRecord
<1>4. request' = [request EXCEPT ![q] = rec]
  BY <1>1 DEF Answer
<1> HIDE DEF rec
<1>5. /\ request'[q] = rec
      /\ \A p \in Requests : p # q => request'[p] = request[p]
      /\ \A r : RacedDecisions(r) => RacedDecisions(r)'
  BY <1>3, <1>4, RequestFrame DEF Decides
<1>6. \A p \in Requests : request'[p].seen = request[p].seen
  BY <1>3, <1>5
<1>7. PICK m \in Msgs :
        /\ workStream[m].state = "unused"
        /\ workStream' = [workStream EXCEPT
                ![m] = [state |-> "ready", run |-> ReqRun[q], tries |-> 0]]
  BY DEF PublishRun
<1>8. /\ workStream'[m].state = "ready" /\ workStream'[m].run = ReqRun[q]
      /\ \A k \in Msgs : k # m => workStream'[k] = workStream[k]
  BY <1>1, <1>7
<1>9. \A k \in Msgs : \A r : JobOf(k, r)' => JobOf(k, r) \/ (k = m /\ r = ReqRun[q])
  BY <1>8 DEF JobOf
<1>10. ASSUME NEW p \in Requests PROVE SteadyRequest(p)'
  <2>1. SteadyRequest(p)
    BY DEF SteadyInv
  <2>2. CASE p = q
    BY <1>1, <1>3, <1>5, <2>2 DEF SteadyRequest, Unsubmitted, Decides, NeedsApproval
  <2>3. CASE p # q
    <3>1. Unsubmitted(p) => ReqRun[p] # ReqRun[q]
      BY <1>1, <1>2, <2>1, <2>3
         DEF SteadyRequest, Unsubmitted, StillQueues, ApproveSound, SubmitKinds
    <3>2. Unsubmitted(p) => \A k \in Msgs : ~JobOf(k, ReqRun[p])'
      BY <1>9, <2>1, <3>1 DEF SteadyRequest
    <3>3. QED
      BY <1>5, <1>6, <2>1, <2>3, <3>2 DEF SteadyRequest, Unsubmitted, Decides, NeedsApproval
  <2>4. QED
    BY <2>2, <2>3
<1>11. ASSUME NEW k \in Msgs PROVE SteadyMessage(k)'
  <2>1. CASE k = m
    <3>1. Queues(q)' /\ request'[q].pc = "done"
      BY <1>2, <1>3, <1>5, <1>6 DEF Queues, Decides
    <3>2. QED
      BY <1>8, <2>1, <3>1 DEF SteadyMessage
  <2>2. CASE k # m
    <3>1. SteadyMessage(k) /\ workStream'[k] = workStream[k]
      BY <1>8, <2>2 DEF SteadyInv
    <3>2. \A p \in Requests : request[p].pc = "done" /\ Queues(p) =>
            (request[p].pc = "done")' /\ Queues(p)'
      BY <1>2, <1>5 DEF Queues, Decides
    <3>3. QED
      BY <3>1, <3>2 DEF SteadyMessage
  <2>3. QED
    BY <2>1, <2>2
<1>12. ASSUME NEW d \in Slots PROVE (SteadyRecord(delivery[d]) /\ HoldsMessage(delivery[d]))'
  <2>1. SteadyRecord(delivery[d]) /\ HoldsMessage(delivery[d])
    BY DEF SteadyInv
  <2>2. delivery[d].pc # "free" => delivery[d].msg \in Msgs /\ delivery[d].msg # m
    BY <1>7, <2>1 DEF HoldsMessage
  <2>3. QED
    BY <1>8, <2>1, <2>2 DEF SteadyRecord, HoldsMessage
<1>13. OneJobEach' /\ OneDeliveryEach'
  <2>1. ASSUME NEW n \in Msgs, n # m, JobOf(n, ReqRun[q])' PROVE RacedDecisions(ReqRun[q])'
    <3>1. JobOf(n, ReqRun[q])
      BY <1>9, <2>1
    <3>2. PICK p \in Requests : Queues(p) /\ ReqRun[p] = ReqRun[q] /\ request[p].pc = "done"
      BY <1>1, <3>1 DEF SteadyInv, SteadyMessage, JobOf
    <3>3. SteadyRequest(p) /\ p # q
      BY <1>2, <3>2 DEF SteadyInv
    <3>4. QED
      BY <1>1, <1>2, <1>5, <3>2, <3>3, TwoQueuersRace
  <2>2. ASSUME NEW k \in Msgs, NEW n \in Msgs, NEW r \in Runs, k # n,
               JobOf(k, r)', JobOf(n, r)'
        PROVE  RacedDecisions(r)'
    <3>1. CASE JobOf(k, r) /\ JobOf(n, r)
      BY <1>5, <2>2, <3>1 DEF SteadyInv, OneJobEach
    <3>2. QED
      BY <1>9, <2>1, <2>2, <3>1
  <2>3. OneJobEach'
    BY <2>2 DEF OneJobEach
  <2>4. QED
    BY <2>3 DEF SteadyInv, OneDeliveryEach
<1>14. ASSUME NEW r \in Runs, ~RacedDecisions(r)', runsKv[r].status \in Terminal
       PROVE  Over(r)'
  <2>1. Over(r)
    BY <1>5, <1>14 DEF SteadyInv, Quiescent
  <2>2. r # ReqRun[q]
    BY <1>2, <2>1 DEF Over
  <2>3. \A k \in Msgs : ~(JobOf(k, r)' /\ workStream'[k].state = "ready")
    BY <1>8, <1>9, <2>1, <2>2 DEF Over, JobOf
  <2>4. \A p \in Requests : ReqRun[p] = r => request'[p] = request[p]
    BY <1>5, <2>2
  <2>5. QED
    BY <2>1, <2>3, <2>4 DEF Over, StillQueues, Decides
<1>15. \A r \in Runs : (SteadyRun(r) /\ Quiescent(r))'
  BY <1>14 DEF SteadyInv, SteadyRun, Quiescent, NeedsApproval
<1>16. QED
  BY <1>10, <1>11, <1>12, <1>13, <1>15 DEF SteadyInv


LEMMA GatewaySteady ==
    ASSUME Typed, CancelInv, ApprovalInv, SteadyInv, GatewayNext,
           UNCHANGED <<delivery, faultsLeft>>
    PROVE  SteadyInv'
<1>1. PICK q \in Requests : RequestStep(q) \/ GatewayCrash(q)
  BY DEF GatewayNext
<1> DEFINE r == ReqRun[q]
           was == request[q]
<1>2. /\ request \in [Requests -> RequestRecord] /\ r \in Runs /\ was \in RequestRecord
      /\ runsKv \in [Runs -> Snapshot] /\ faultsLeft \in Nat
      /\ SteadyRequest(q) /\ SteadyRun(r) /\ Quiescent(r) /\ ApproveSound(q) /\ RequestJustified(q)
  BY DEF Typed, TypeOK, StoreTypeOK, GatewayTypeOK, SteadyInv, ApprovalInv, CancelInv
<1>3. \A applied \in BOOLEAN, err \in Errors : Remote(applied, err) => applied /\ err = "none"
  BY <1>2, RemoteCalm
\* A step to pc that keeps what the request has read.
<1>4. ASSUME NEW pc \in {"relate", "publish", "done"},
             Goto(q, pc) \/ (pc = "done" /\ Answer(q, "accepted"))
      PROVE  \E rec : /\ request' = [request EXCEPT ![q] = rec]
                      /\ rec.pc = pc /\ rec.seen = was.seen
  <2>1. CASE Goto(q, pc)
    <3>1. request' = [request EXCEPT ![q] = [was EXCEPT !.pc = pc]]
      BY <1>2, <2>1 DEF Goto
    <3>2. [was EXCEPT !.pc = pc].pc = pc /\ [was EXCEPT !.pc = pc].seen = was.seen
      BY <1>2 DEF RequestRecord
    <3>3. QED
      BY <3>1, <3>2
  <2>2. CASE pc = "done" /\ Answer(q, "accepted")
    <3> DEFINE rec == [was EXCEPT !.pc = "done", !.answer = "accepted"]
    <3>1. request' = [request EXCEPT ![q] = rec]
      BY <1>2, <2>2 DEF Answer
    <3>2. rec.pc = "done" /\ rec.seen = was.seen
      BY <1>2 DEF RequestRecord
    <3>3. QED
      BY <2>2, <3>1, <3>2
  <2>3. QED
    BY <1>4, <2>1, <2>2
<1>5. CASE SubmitPut(q)
  <2> DEFINE snap == InitialSnapshot(ReqKind[q])
  <2>1. PICK pc \in {"relate", "publish"} :
          /\ PutRun(r, snap, TRUE) /\ Goto(q, pc)
          /\ ReqKind[q] \in SubmitKinds /\ was.pc = "new" /\ UNCHANGED workStream
    <3>1. PICK applied \in BOOLEAN, err \in Errors :
            /\ Remote(applied, err) /\ PutRun(r, snap, applied)
            /\ err = "none" =>
                Goto(q, IF ReqKind[q] \in {"bundle", "spawnBundle"} THEN "relate" ELSE "publish")
      BY <1>5 DEF SubmitPut
    <3>2. applied = TRUE /\ err = "none"
      BY <1>3, <3>1
    <3>3. QED
      BY <1>5, <3>1, <3>2 DEF SubmitPut, At
  <2>2. PICK rec : request' = [request EXCEPT ![q] = rec] /\ rec.pc = pc /\ rec.seen = was.seen
    BY <1>4, <2>1
  <2>3. /\ snap.status \in {"PENDING", "PENDING_APPROVAL"}
        /\ snap.status = "PENDING_APPROVAL" => ReqKind[q] = "spawnBundle"
    BY <2>1 DEF InitialSnapshot, Snap, SubmitKinds
  <2>4. runsKv' = [runsKv EXCEPT ![r] = snap]
    BY <2>1 DEF PutRun
  <2> HIDE DEF snap
  <2>5. runsKv'[r] = snap /\ \A s \in Runs : s # r => runsKv'[s] = runsKv[s]
    BY <1>2, <2>4
  <2>6. request'[q] = rec
    BY <1>2, <2>2
  <2>7. was.seen.status = "absent"
    BY <1>2, <2>1 DEF SteadyRequest, Unsubmitted
  <2>8. SteadyRequest(q)'
    BY <2>1, <2>2, <2>6, <2>7 DEF SteadyRequest, Unsubmitted, Decides, SubmitKinds
  <2>9. SteadyRun(r)' /\ Quiescent(r)'
    BY <2>3, <2>5 DEF SteadyRun, Quiescent, NeedsApproval, Terminal
  <2>10. \A p \in Requests : p # q /\ ReqRun[p] = r => ~Unsubmitted(p)
    BY <2>1 DEF Unsubmitted
  <2>11. QED
    BY <1>2, <2>1, <2>2, <2>5, <2>8, <2>9, <2>10, SteadyRequestStep DEF Decides
<1>6. CASE RelatePut(q)
  <2>1. PICK pc \in {"publish", "done"} :
          /\ Goto(q, pc) \/ (pc = "done" /\ Answer(q, "accepted"))
          /\ pc = "done" => ReqKind[q] = "spawnBundle"
          /\ pc = "publish" => ReqKind[q] = "bundle"
          /\ ReqKind[q] \in {"bundle", "spawnBundle"} /\ was.pc = "relate"
          /\ UNCHANGED <<runsKv, workStream>>
    <3>1. PICK applied \in BOOLEAN, err \in Errors :
            /\ Remote(applied, err)
            /\ err = "none" => \/ ReqKind[q] = "bundle" /\ Goto(q, "publish")
                               \/ ReqKind[q] = "spawnBundle" /\ Answer(q, "accepted")
      BY <1>6 DEF RelatePut
    <3>2. err = "none"
      BY <1>3, <3>1
    <3>3. QED
      BY <1>6, <3>1, <3>2 DEF RelatePut, At
  <2>2. PICK rec : request' = [request EXCEPT ![q] = rec] /\ rec.pc = pc /\ rec.seen = was.seen
    BY <1>4, <2>1
  <2>3. /\ request'[q] = rec
        /\ \A p \in Requests : p # q => request'[p] = request[p]
        /\ RacedDecisions(r) => RacedDecisions(r)'
    BY <2>2, RequestFrame DEF Decides
  <2>4. SteadyRequest(q)'
    BY <1>2, <2>1, <2>2, <2>3 DEF SteadyRequest, Unsubmitted, Decides, NeedsApproval
  <2>5. SteadyRun(r)'
    BY <1>2, <2>1 DEF SteadyRun, NeedsApproval
  <2>6. ASSUME Over(r) PROVE Over(r)'
    <3>1. ReqKind[q] = "spawnBundle"
      BY <2>1, <2>6 DEF Over, StillQueues
    <3>2. (~StillQueues(q) /\ ~(request[q].pc = "put" /\ Decides(q)))'
      BY <2>1, <2>2, <2>3, <3>1 DEF StillQueues
    <3>3. QED
      BY <2>1, <2>3, <2>6, <3>2 DEF Over, StillQueues, Decides, JobOf
  <2>7. Quiescent(r)'
    BY <1>2, <2>1, <2>3, <2>6 DEF Quiescent
  <2>8. \A p \in Requests : p # q /\ ReqRun[p] = r => ~Unsubmitted(p)
    BY <2>1 DEF Unsubmitted, SubmitKinds
  <2>9. QED
    BY <1>2, <2>1, <2>2, <2>4, <2>5, <2>7, <2>8, SteadyRequestStep DEF Decides
<1>7. CASE PublishJob(q)
  <2>1. PublishRun(r, TRUE) /\ Answer(q, "accepted")
    <3>1. PICK applied \in BOOLEAN, err \in Errors :
            /\ Remote(applied, err) /\ PublishRun(r, applied)
            /\ err = "none" => Answer(q, "accepted")
      BY <1>7 DEF PublishJob
    <3>2. applied = TRUE /\ err = "none"
      BY <1>3, <3>1
    <3>3. QED
      BY <3>1, <3>2
  <2>2. QED
    BY <1>7, <2>1, PublishSteady DEF PublishJob
<1>8. CASE Undo(q) \/ GatewayCrash(q)
  <2>1. faultsLeft - 1 # faultsLeft
    BY <1>2
  <2>2. QED
    BY <1>2, <1>8, <2>1 DEF Undo, GatewayCrash, SteadyRequest
<1>9. CASE ReadRun(q)
  <2> DEFINE seen == runsKv[r]
  <2>1. PICK pc \in {"put", "done"}, answer \in {"none", "accepted", "refused"} :
          /\ request' = [request EXCEPT ![q] = [pc |-> pc, seen |-> seen, answer |-> answer]]
          /\ pc = "put" => Decidable(ReqKind[q], seen)
          /\ ReqKind[q] \in {"approve", "reject", "cancel"} /\ was.pc = "new"
          /\ UNCHANGED <<runsKv, workStream>>
    <3>1. PICK err \in Errors :
            /\ Remote(TRUE, err)
            /\ err = "none" =>
                \E pc \in {"put", "done"}, answer \in {"none", "accepted", "refused"} :
                /\ request' = [request EXCEPT ![q] =
                                    [pc |-> pc, seen |-> seen, answer |-> answer]]
                /\ pc = "put" => Decidable(ReqKind[q], seen)
      BY <1>9 DEF ReadRun
    <3>2. err = "none"
      BY <1>3, <3>1
    <3>3. QED
      BY <1>9, <3>1, <3>2 DEF ReadRun, At
  <2> DEFINE rec == [pc |-> pc, seen |-> seen, answer |-> answer]
  <2>2. request' = [request EXCEPT ![q] = rec] /\ rec.pc = pc /\ rec.seen = seen
    BY <2>1
  <2> HIDE DEF rec
  <2>3. ~Decides(q)
    BY <1>2, <2>1 DEF ApproveSound, Decides
  <2>4. /\ request'[q] = rec
        /\ \A p \in Requests : p # q => request'[p] = request[p]
        /\ RacedDecisions(r) => RacedDecisions(r)'
    BY <2>2, <2>3, RequestFrame
  <2>5. SteadyRequest(q)'
    <3>1. Decides(q)' => NeedsApproval(r)'
      BY <1>2, <2>2, <2>4 DEF Decides, SteadyRun, NeedsApproval
    <3>2. ReqKind[q] \in {"approve", "reject"} /\ pc = "put" => Decides(q)'
      BY <2>1, <2>2, <2>4 DEF Decides, Decidable
    <3>3. QED
      BY <2>1, <2>2, <2>4, <3>1, <3>2 DEF SteadyRequest, Unsubmitted, SubmitKinds
  <2>6. SteadyRun(r)'
    BY <1>2, <2>1 DEF SteadyRun, NeedsApproval
  <2>7. ASSUME Over(r), seen.status \in Terminal PROVE Over(r)'
    <3>1. (~StillQueues(q) /\ ~(request[q].pc = "put" /\ Decides(q)))'
      BY <2>1, <2>2, <2>4, <2>7 DEF StillQueues, Decides, Terminal
    <3>2. QED
      BY <2>1, <2>4, <2>7, <3>1 DEF Over, StillQueues, Decides, JobOf
  <2>8. Quiescent(r)'
    BY <1>2, <2>1, <2>4, <2>7 DEF Quiescent
  <2>9. \A p \in Requests : ReqRun[p] = r /\ Unsubmitted(p) => seen.status = "absent"
    BY DEF SteadyInv, SteadyRequest
  <2>10. \A p \in Requests : p # q /\ ReqRun[p] = r /\ Unsubmitted(p) =>
            runsKv'[r].status = "absent" /\ rec.seen.status = "absent"
    BY <2>1, <2>2, <2>9
  <2>11. /\ was.pc # "done" /\ rec.pc # "new" /\ UNCHANGED workStream
         /\ \A s \in Runs : s # r => runsKv'[s] = runsKv[s]
    BY <2>1, <2>2
  <2>12. QED
    BY <2>2, <2>3, <2>5, <2>6, <2>8, <2>10, <2>11, SteadyRequestStep
<1>10. CASE DecisionPut(q)
  <2> DEFINE snap == Decided(ReqKind[q], was.seen)
  <2>1. PICK pc \in {"publish", "done"} :
          /\ PutRun(r, snap, TRUE)
          /\ Goto(q, pc) \/ (pc = "done" /\ Answer(q, "accepted"))
          /\ pc = "publish" => ReqKind[q] = "approve"
          /\ ReqKind[q] \in {"approve", "reject", "cancel"} /\ was.pc = "put"
          /\ UNCHANGED workStream
    <3>1. PICK applied \in BOOLEAN, err \in Errors :
            /\ Remote(applied, err) /\ PutRun(r, snap, applied)
            /\ err = "none" => \/ ReqKind[q] = "approve" /\ Goto(q, "publish")
                               \/ ReqKind[q] # "approve" /\ Answer(q, "accepted")
      BY <1>10 DEF DecisionPut
    <3>2. applied = TRUE /\ err = "none"
      BY <1>3, <3>1
    <3>3. QED
      BY <1>10, <3>1, <3>2 DEF DecisionPut, At
  <2>2. PICK rec : request' = [request EXCEPT ![q] = rec] /\ rec.pc = pc /\ rec.seen = was.seen
    BY <1>4, <2>1
  <2>3. /\ request'[q] = rec
        /\ \A p \in Requests : p # q => request'[p] = request[p]
        /\ RacedDecisions(r) => RacedDecisions(r)'
    BY <2>2, RequestFrame DEF Decides
  <2>4. /\ snap.status \in {"PENDING", "CANCELLED", "CANCELLING"}
        /\ snap.status = "CANCELLED" => ReqKind[q] # "approve" /\ Decides(q)
    BY <1>2, <2>1 DEF Decided, Snap, Decides, SteadyRequest
  <2>5. runsKv' = [runsKv EXCEPT ![r] = snap]
    BY <2>1 DEF PutRun
  <2> HIDE DEF snap
  <2>6. runsKv'[r] = snap /\ \A s \in Runs : s # r => runsKv'[s] = runsKv[s]
    BY <1>2, <2>5
  <2>7. SteadyRequest(q)'
    BY <1>2, <2>1, <2>2, <2>3 DEF SteadyRequest, Unsubmitted, Decides, NeedsApproval
  <2>8. SteadyRun(r)'
    BY <2>4, <2>6 DEF SteadyRun
  <2>9. ASSUME ~RacedDecisions(r)', runsKv'[r].status \in Terminal PROVE Over(r)'
    <3>1. ReqKind[q] # "approve" /\ Decides(q) /\ ~RacedDecisions(r) /\ pc = "done"
      BY <2>1, <2>3, <2>4, <2>6, <2>9 DEF Terminal
    <3>2. \A m \in Msgs : ~JobOf(m, r)
      BY <1>2, <2>1, <3>1, JobIsLast
    <3>3. \A d \in Slots : delivery[d].pc # "free" => delivery[d].run # r
      BY <3>2 DEF SteadyInv, HoldsMessage, JobOf
    <3>4. ASSUME NEW p \in Requests, ReqRun[p] = r
          PROVE  (~StillQueues(p) /\ ~(request[p].pc = "put" /\ Decides(p)))'
      <4>1. CASE p = q
        BY <2>2, <2>3, <3>1, <4>1 DEF StillQueues
      <4>2. CASE p # q
        <5>1. SteadyRequest(p) /\ ApproveSound(p)
          BY DEF SteadyInv, ApprovalInv
        <5>2. ~Queues(p) /\ ~Decides(p)
          BY <1>2, <3>1, <3>4, <4>2, <5>1, TwoQueuersRace
        <5>3. ~StillQueues(p)
          BY <5>1, <5>2, StillQueuesQueues
        <5>4. QED
          BY <2>3, <4>2, <5>2, <5>3 DEF StillQueues, Decides
      <4>3. QED
        BY <4>1, <4>2
    <3>5. QED
      BY <2>1, <3>2, <3>3, <3>4 DEF Over, JobOf
  <2>10. Quiescent(r)'
    BY <2>9 DEF Quiescent
  <2>11. ASSUME NEW p \in Requests, p # q, ReqRun[p] = r, Unsubmitted(p) PROVE FALSE
    <3>1. was.seen.status = "absent"
      BY <2>11 DEF SteadyInv, SteadyRequest
    <3>2. QED
      BY <1>2, <2>1, <3>1 DEF RequestJustified
  <2>12. QED
    BY <1>2, <2>1, <2>2, <2>6, <2>7, <2>8, <2>10, <2>11, SteadyRequestStep DEF Decides
<1>11. QED
  BY <1>1, <1>5, <1>6, <1>7, <1>8, <1>9, <1>10 DEF RequestStep


\* Faults do not come back.
LEMMA FaultsFall ==
    ASSUME Typed, Next
    PROVE  faultsLeft' \in {faultsLeft, faultsLeft - 1}
<1>1. \A applied \in BOOLEAN, err \in Errors :
        Remote(applied, err) => faultsLeft' \in {faultsLeft, faultsLeft - 1}
  BY DEF Remote
<1>2. ASSUME NEW q \in Requests, RequestStep(q) \/ GatewayCrash(q)
      PROVE  faultsLeft' \in {faultsLeft, faultsLeft - 1}
  BY <1>1, <1>2 DEF RequestStep, SubmitPut, RelatePut, PublishJob, Undo, ReadRun, DecisionPut,
                    GatewayCrash
<1>3. ASSUME NEW d \in Slots, HandlerStep(d) \/ BackgroundStep(d)
      PROVE  faultsLeft' \in {faultsLeft, faultsLeft - 1}
  BY <1>1, <1>3 DEF HandlerStep, DiscardInvalid, Ack, Nak, RecordFailure, ReadSnapshot,
                    FailResolve, TakeOwnership, Finalize, BackgroundStep, HeartbeatRead,
                    HeartbeatPut, Flush
<1>4. ASSUME NEW d \in Slots, EngineStep(d) \/ EngineEvent(d) \/ LoseProgress(d)
      PROVE  faultsLeft' \in {faultsLeft, faultsLeft - 1}
  BY <1>4 DEF EngineStep, EngineStart, EngineComplete, EngineCancelled, EngineFail, EngineEnd,
              EngineEvent, LoseProgress, storeVars
<1>5. QED
  BY <1>2, <1>3, <1>4 DEF Next, GatewayNext, WorkerNext, Fetch, WorkerCrash, AckWaitExpires

LEMMA CalmInvariant == Spec => []CalmInv
<1>1. Typed /\ QueueInv /\ CancelInv /\ ApprovalInv /\ CalmInv /\ [Next]_vars => CalmInv'
  <2>1. ASSUME Typed, QueueInv, CancelInv, ApprovalInv, CalmInv, Next, faultsLeft' = MaxFaults
        PROVE  SteadyInv'
    <3>1. UNCHANGED faultsLeft /\ SteadyInv
      BY <2>1, FaultsFall DEF CalmInv, Typed, TypeOK, StoreTypeOK
    <3>2. QED
      BY <2>1, <3>1, GatewaySteady, WorkerSteady DEF Next
  <2>2. ASSUME CalmInv, UNCHANGED vars PROVE CalmInv'
    BY <2>2 DEF vars, CalmInv, SteadyInv, SteadyRequest, SteadyRun, SteadyMessage, SteadyRecord,
                HoldsMessage, OneJobEach, OneDeliveryEach, Quiescent, Over, Decides, Queues,
                StillQueues, JobOf, Unsubmitted, RacedDecisions, NeedsApproval
  <2>3. QED
    BY <2>1, <2>2 DEF CalmInv
<1>2. Init => CalmInv
  BY InitSteady DEF CalmInv
<1>3. QED
  BY <1>1, <1>2, TypeCorrect, QueueInvariant, CancelInvariant, ApprovalInvariant, PTL DEF Spec

\* A request that changes the status of an ended run is a cancel that had read
\* the run before the end.
LEMMA GatewayFinal ==
    ASSUME Typed, SteadyInv, GatewayNext, NEW r \in Runs, Over(r),
           runsKv[r].status \in Terminal, runsKv'[r].status # runsKv[r].status
    PROVE  \E q \in Requests : ReqKind[q] = "cancel" /\ ReqRun[q] = r /\ request'[q] # request[q]
<1>1. PICK q \in Requests : RequestStep(q) \/ GatewayCrash(q)
  BY DEF GatewayNext
<1>2. /\ SteadyRequest(q) /\ runsKv \in [Runs -> Snapshot]
      /\ request \in [Requests -> RequestRecord]
  BY DEF SteadyInv, Typed, TypeOK, StoreTypeOK, GatewayTypeOK
<1>3. SubmitPut(q) \/ DecisionPut(q)
  BY <1>1, <1>2 DEF RequestStep, RelatePut, PublishJob, Undo, ReadRun, GatewayCrash, SteadyRequest
<1>4. ReqRun[q] = r
  <2>1. PICK snap \in {InitialSnapshot(ReqKind[q]), Decided(ReqKind[q], request[q].seen)},
             applied \in BOOLEAN : PutRun(ReqRun[q], snap, applied)
    BY <1>3 DEF SubmitPut, DecisionPut
  <2>2. runsKv' = runsKv \/ runsKv' = [runsKv EXCEPT ![ReqRun[q]] = snap]
    BY <2>1 DEF PutRun
  <2>3. ReqRun[q] # r => runsKv'[r] = runsKv[r]
    BY <1>2, <2>2
  <2>4. QED
    BY <2>3
<1>5. CASE SubmitPut(q)
  BY <1>2, <1>4, <1>5 DEF SubmitPut, At, SteadyRequest, Unsubmitted, Terminal
<1>6. CASE DecisionPut(q)
  <2>1. request[q].pc = "put" /\ ReqKind[q] \in {"approve", "reject", "cancel"}
    BY <1>6 DEF DecisionPut, At
  <2>2. ReqKind[q] = "cancel"
    BY <1>2, <1>4, <2>1 DEF SteadyRequest, Over
  <2>3. PICK answer : Answer(q, answer)
    BY <1>6, <2>2 DEF DecisionPut
  <2>4. request'[q].pc = "done"
    BY <1>2, <2>3 DEF Answer, RequestRecord
  <2>5. QED
    BY <1>4, <2>1, <2>2, <2>4
<1>7. QED
  BY <1>3, <1>5, <1>6

\* A worker that still writes an ended run writes the status it has.
LEMMA WorkerFinal ==
    ASSUME Typed, QueueInv, SteadyInv, WorkerNext, NEW r \in Runs, Over(r),
           runsKv[r].status \in Terminal
    PROVE  runsKv'[r].status = runsKv[r].status
<1>1. ASSUME NEW d \in Slots, NEW snap, NEW applied \in BOOLEAN,
             PutRun(delivery[d].run, snap, applied),
             delivery[d].run = r => snap.status = runsKv[r].status
      PROVE  runsKv'[r].status = runsKv[r].status
  <2>1. runsKv \in [Runs -> Snapshot]
    BY DEF Typed, TypeOK, StoreTypeOK
  <2>2. QED
    BY <1>1, <2>1 DEF PutRun
<1>2. ASSUME NEW d \in Slots, delivery[d].pc # "free", delivery[d].run = r
      PROVE  /\ delivery[d].pc \in Ended
             /\ delivery[d].status \in Terminal => delivery[d].status = runsKv[r].status
  BY <1>2 DEF Over
<1>3. ASSUME NEW d \in Slots
      PROVE  /\ SteadyRecord(delivery[d]) /\ DeliverySound(delivery[d])
             /\ delivery[d] \in DeliveryRecord
             /\ ContextSnapshot(d).status = delivery[d].status
             /\ delivery[d].status \in Terminal => LiveSnapshot(d).status = delivery[d].status
  BY DEF SteadyInv, QueueInv, Typed, TypeOK, WorkerTypeOK, ContextSnapshot, LiveSnapshot, Snap
<1>4. ASSUME NEW d \in Slots, HandlerStep(d) PROVE runsKv'[r].status = runsKv[r].status
  <2>1. CASE DiscardInvalid(d) \/ Ack(d) \/ Nak(d) \/ ReadSnapshot(d)
    BY <2>1 DEF DiscardInvalid, Ack, Nak, ReadSnapshot
  <2>2. CASE RecordFailure(d)
    BY <1>3, <2>2 DEF RecordFailure, SteadyRecord
  <2>3. CASE FailResolve(d) \/ TakeOwnership(d)
    <3>1. delivery[d].pc = "resolve"
      BY <2>3 DEF FailResolve, TakeOwnership
    <3>2. PICK snap \in {Snap("FAILED", FALSE, delivery[d].approval), LiveSnapshot(d)},
               applied \in BOOLEAN : PutRun(delivery[d].run, snap, applied)
      BY <2>3 DEF FailResolve, TakeOwnership
    <3>3. delivery[d].run # r
      BY <1>2, <3>1 DEF Ended
    <3>4. QED
      BY <1>1, <3>2, <3>3
  <2>4. CASE Finalize(d)
    <3>1. delivery[d].pc = "final" /\ delivery[d].heartbeat \notin {"NatsError", "Exception"}
      BY <1>3, <2>4 DEF Finalize, SteadyRecord
    <3>2. PICK applied \in BOOLEAN : PutRun(delivery[d].run, ContextSnapshot(d), applied)
      BY <2>4, <3>1 DEF Finalize
    <3>3. delivery[d].status \in Terminal
      BY <1>3, <3>1 DEF DeliverySound
    <3>4. QED
      BY <1>1, <1>2, <1>3, <3>1, <3>2, <3>3
  <2>5. QED
    BY <1>4, <2>1, <2>2, <2>3, <2>4 DEF HandlerStep
<1>5. ASSUME NEW d \in Slots, BackgroundStep(d) PROVE runsKv'[r].status = runsKv[r].status
  <2>1. CASE HeartbeatRead(d)
    BY <2>1 DEF HeartbeatRead
  <2>2. CASE HeartbeatPut(d)
    <3>1. PICK applied \in BOOLEAN : PutRun(delivery[d].run, LiveSnapshot(d), applied)
      BY <2>2 DEF HeartbeatPut
    <3>2. delivery[d].heartbeat = "read"
      BY <2>2 DEF HeartbeatPut
    <3>3. delivery[d].pc \notin {"free", "settled", "done"}
      BY <1>3, <3>2 DEF SteadyRecord
    <3>4. delivery[d].run = r => delivery[d].pc = "final"
      BY <1>2, <3>3 DEF Ended
    <3>5. delivery[d].run = r => delivery[d].status \in Terminal
      BY <1>3, <3>4 DEF DeliverySound
    <3>6. QED
      BY <1>1, <1>2, <1>3, <3>1, <3>3, <3>5
  <2>3. CASE Flush(d)
    <3>1. PICK applied \in BOOLEAN : PutRun(delivery[d].run, ContextSnapshot(d), applied)
      BY <2>3 DEF Flush
    <3>2. delivery[d].flush # "idle"
      BY <2>3 DEF Flush, Flushing
    <3>3. delivery[d].pc # "free"
      BY <1>3, <3>2 DEF SteadyRecord
    <3>4. delivery[d].run = r => delivery[d].status \in Terminal
      BY <1>2, <1>3, <3>2, <3>3 DEF Ended, DeliverySound, SteadyRecord
    <3>5. QED
      BY <1>1, <1>2, <1>3, <3>1, <3>3, <3>4
  <2>4. QED
    BY <1>5, <2>1, <2>2, <2>3 DEF BackgroundStep
<1>6. ASSUME NEW d \in Slots, EngineStep(d) \/ EngineEvent(d) \/ LoseProgress(d)
      PROVE  UNCHANGED runsKv
  BY <1>6 DEF EngineStep, EngineStart, EngineComplete, EngineCancelled, EngineFail, EngineEnd,
              EngineEvent, LoseProgress, storeVars
<1>7. QED
  BY <1>4, <1>5, <1>6 DEF WorkerNext, Fetch, WorkerCrash, AckWaitExpires

\* While nothing has failed, and unless decisions raced on it, the status of an
\* ended run is changed by nothing but the blind put of a cancel
\* (http_api.py) that had read the run before the end: of the worker's writers
\* none comes after the one that ended it.
THEOREM TerminalStatusesStay == Spec => TerminalIsFinal
<1> DEFINE Keeps ==
        \A r \in Runs :
            /\ faultsLeft = MaxFaults
            /\ ~RacedDecisions(r)
            /\ runsKv[r].status \in Terminal
            /\ runsKv'[r].status # runsKv[r].status
            => \E q \in Requests :
                    ReqKind[q] = "cancel" /\ ReqRun[q] = r /\ request'[q] # request[q]
<1>1. Typed /\ QueueInv /\ CalmInv /\ [Next]_vars => [Keeps]_vars
  <2> SUFFICES ASSUME Typed, QueueInv, CalmInv, Next, NEW r \in Runs, faultsLeft = MaxFaults,
                      ~RacedDecisions(r), runsKv[r].status \in Terminal,
                      runsKv'[r].status # runsKv[r].status
               PROVE  \E q \in Requests :
                        ReqKind[q] = "cancel" /\ ReqRun[q] = r /\ request'[q] # request[q]
    OBVIOUS
  <2>1. SteadyInv /\ Over(r)
    BY DEF CalmInv, SteadyInv, Quiescent
  <2> QED
    BY <2>1, GatewayFinal, WorkerFinal DEF Next
<1>2. Spec => [][Keeps]_vars
  BY <1>1, TypeCorrect, QueueInvariant, CalmInvariant, PTL DEF Spec
<1> QED
  BY <1>2, PTL DEF TerminalIsFinal


-----------------------------------------------------------------------------
(* Who is left to end a run.  A run shown as going on is tended, and stays   *)
(* so until its end; a cancel that is about to put found it tended, or ended. *)

Working == {"fetched", "resolve", "start", "engine", "final"}

TendedRun(r) ==
    /\ runsKv[r].status \in {"PENDING", "RUNNING"} => Tended(r)
    /\ runsKv[r].status = "CANCELLING" => Tended(r) \/ r \in reached

TendedCancel(q) ==
    ReqKind[q] = "cancel" /\ request[q].pc = "put" /\ ~Decides(q) =>
        Tended(ReqRun[q]) \/ ReqRun[q] \in reached

TendedInv == (\A r \in Runs : TendedRun(r)) /\ \A q \in Requests : TendedCancel(q)

TendedCalm == faultsLeft = MaxFaults => TendedInv

\* A step under which a tended run stays tended or ends, and a run that comes to
\* be shown as going on is tended.
LEMMA TendedStep ==
    ASSUME TendedInv, reached \subseteq reached',
           \A r \in Runs : Tended(r) =>
                Tended(r)' \/ (r \in reached' /\ runsKv'[r].status \in Terminal),
           \A r \in Runs : \/ runsKv'[r].status = runsKv[r].status
                           \/ runsKv'[r].status \notin {"PENDING", "RUNNING", "CANCELLING"}
                           \/ Tended(r)'
                           \/ runsKv'[r].status = "CANCELLING" /\ r \in reached',
           \A q \in Requests : request'[q] = request[q] \/ TendedCancel(q)'
    PROVE  TendedInv'
<1>1. ASSUME NEW r \in Runs PROVE TendedRun(r)'
  <2>1. TendedRun(r)
    BY DEF TendedInv
  <2>2. QED
    BY <2>1 DEF TendedRun, Terminal
<1>2. ASSUME NEW q \in Requests, request'[q] = request[q] PROVE TendedCancel(q)'
  <2>1. TendedCancel(q) /\ ReqRun[q] \in Runs
    BY DEF TendedInv
  <2>2. QED
    BY <1>2, <2>1 DEF TendedCancel, Decides
<1>3. QED
  BY <1>1, <1>2 DEF TendedInv

\* A step of one delivery, which stops working on its run only by ending it.
LEMMA TendedDeliveryStep ==
    ASSUME Typed, TendedInv, UNCHANGED request, NEW d \in Slots, NEW rec, Becomes(d, rec),
           rec.run = delivery[d].run,
           \A m \in Msgs : workStream[m].state = "ready" => workStream'[m] = workStream[m],
           \/ /\ UNCHANGED <<runsKv, reached>>
              /\ delivery[d].pc \in Working => rec.pc \in Working \/ delivery[d].run \notin Runs
           \/ \E snap :
                /\ PutRun(delivery[d].run, snap, TRUE)
                /\ snap.status \in Terminal \/ (delivery[d].pc \in Working /\ rec.pc \in Working)
    PROVE  TendedInv'
<1>1. /\ runsKv \in [Runs -> Snapshot] /\ delivery \in [Slots -> DeliveryRecord]
  BY DEF Typed, TypeOK, StoreTypeOK, WorkerTypeOK
<1>2. /\ delivery'[d] = rec
      /\ \A e \in Slots : e # d => delivery'[e] = delivery[e]
  BY <1>1 DEF Becomes
<1>3. ASSUME NEW r \in Runs, Tended(r), delivery[d].run = r /\ delivery[d].pc \in Working
                                            => rec.pc \in Working
      PROVE  Tended(r)'
  <2>1. CASE \E e \in Slots : delivery[e].run = r /\ delivery[e].pc \in Working
    BY <1>2, <1>3, <2>1 DEF Tended, Working
  <2>2. CASE ~\E e \in Slots : delivery[e].run = r /\ delivery[e].pc \in Working
    BY <1>3, <2>2 DEF Tended, Working, Enqueues
  <2>3. QED
    BY <2>1, <2>2
<1>4. CASE UNCHANGED <<runsKv, reached>>
           /\ (delivery[d].pc \in Working => rec.pc \in Working \/ delivery[d].run \notin Runs)
  BY <1>3, <1>4, TendedStep
<1>5. ASSUME NEW snap, PutRun(delivery[d].run, snap, TRUE),
             snap.status \in Terminal \/ (delivery[d].pc \in Working /\ rec.pc \in Working)
      PROVE  TendedInv'
  <2>1. /\ runsKv' = [runsKv EXCEPT ![delivery[d].run] = snap] /\ reached \subseteq reached'
        /\ snap.status \in Terminal => delivery[d].run \in reached'
    BY <1>5 DEF PutRun
  <2>2. \A r \in Runs : IF r = delivery[d].run THEN runsKv'[r] = snap ELSE runsKv'[r] = runsKv[r]
    BY <1>1, <2>1
  <2>3. CASE snap.status \in Terminal
    BY <1>3, <2>1, <2>2, <2>3, TendedStep DEF Terminal
  <2>4. CASE delivery[d].pc \in Working /\ rec.pc \in Working
    <3>1. delivery[d].run \in Runs => Tended(delivery[d].run)
      BY <2>4 DEF Tended, Working
    <3>2. \A r \in Runs : Tended(r) => Tended(r)'
      BY <1>3, <2>4
    <3>3. QED
      BY <2>1, <2>2, <3>1, <3>2, TendedStep
  <2>5. QED
    BY <1>5, <2>3, <2>4
<1>6. QED
  BY <1>4, <1>5


LEMMA WorkerTended ==
    ASSUME Typed, QueueInv, SteadyInv, TendedInv, WorkerNext, UNCHANGED <<request, faultsLeft>>
    PROVE  TendedInv'
<1>1. \A d \in Slots :
        /\ delivery[d] \in DeliveryRecord /\ WellFormed(delivery[d])
        /\ DeliverySound(delivery[d]) /\ SteadyRecord(delivery[d]) /\ HoldsMessage(delivery[d])
        /\ ContextSnapshot(d).status = delivery[d].status
  BY DEF Typed, TypeOK, WorkerTypeOK, QueueInv, SteadyInv, ContextSnapshot, Snap
<1>2. \A applied \in BOOLEAN, err \in Errors : Remote(applied, err) => applied = TRUE /\ err = "none"
  BY RemoteCalm DEF Typed, TypeOK, StoreTypeOK
<1>3. faultsLeft - 1 # faultsLeft'
  BY DEF Typed, TypeOK, StoreTypeOK
<1>4. workStream \in [Msgs -> Message] /\ delivery \in [Slots -> DeliveryRecord]
  BY DEF Typed, TypeOK, StoreTypeOK, WorkerTypeOK
<1>5. ASSUME NEW d \in Slots, NEW w \in Workers, NEW m \in Msgs, Fetch(d, w, m)
      PROVE  TendedInv'
  <2>1. /\ delivery[d].pc = "free" /\ UNCHANGED <<runsKv, reached>>
        /\ workStream' = [workStream EXCEPT ![m].state = "out", ![m].tries = @ + 1]
        /\ delivery' = [delivery EXCEPT ![d] = Fetched(w, m)]
    BY <1>5 DEF Fetch, Becomes
  <2>2. Fetched(w, m).pc = "fetched" /\ Fetched(w, m).run = workStream[m].run
    BY DEF Fetched, FreeSlot
  <2>3. /\ \A k \in Msgs : k # m => workStream'[k] = workStream[k]
        /\ delivery'[d] = Fetched(w, m)
        /\ \A e \in Slots : e # d => delivery'[e] = delivery[e]
    BY <1>4, <2>1
  <2>4. ASSUME NEW r \in Runs, Tended(r) PROVE Tended(r)'
    <3>1. CASE workStream[m].run = r
      BY <2>2, <2>3, <3>1 DEF Tended
    <3>2. CASE workStream[m].run # r
      BY <2>1, <2>3, <2>4, <3>2 DEF Tended, Enqueues
    <3>3. QED
      BY <3>1, <3>2
  <2>5. QED
    BY <2>1, <2>4, TendedStep
<1>6. ASSUME NEW d \in Slots, HandlerStep(d) PROVE TendedInv'
  <2> DEFINE rec == delivery[d]
  \* Removing the message of a handler leaves those that wait.
  <2>1. ASSUME rec.pc \in Handling, RemoveMsg(rec.msg, TRUE), NEW m \in Msgs,
               workStream[m].state = "ready"
        PROVE  workStream'[m] = workStream[m]
    <3>1. rec.msg # m
      BY <1>1, <2>1 DEF HoldsMessage, Handling
    <3>2. QED
      BY <1>4, <2>1, <3>1 DEF RemoveMsg
  <2>2. CASE DiscardInvalid(d)
    <3>1. /\ RemoveMsg(rec.msg, TRUE) /\ Becomes(d, Returned(rec)) /\ rec.pc = "fetched"
          /\ rec.run = NoRun /\ UNCHANGED <<runsKv, reached>>
      BY <1>2, <2>2 DEF DiscardInvalid
    <3>2. Returned(rec).run = rec.run
      BY <1>1 DEF Returned, DeliveryRecord
    <3>3. rec.pc \in Handling /\ rec.run \notin Runs
      BY <3>1 DEF Handling
    <3>4. QED
      BY <2>1, <3>1, <3>2, <3>3, TendedDeliveryStep
  <2>3. CASE Ack(d)
    <3>1. rec.pc = "settled" /\ UNCHANGED <<runsKv, reached>>
      BY <1>1, <2>3 DEF Ack, SteadyRecord
    <3>2. \E applied \in BOOLEAN, err \in Errors :
            /\ Remote(applied, err) /\ RemoveMsg(rec.msg, applied)
            /\ Becomes(d, IF err # "none" /\ rec.pc = "settled"
                          THEN [rec EXCEPT !.pc = ErrorBranch(err)] ELSE Returned(rec))
      BY <1>3, <2>3 DEF Ack
    <3>3. RemoveMsg(rec.msg, TRUE) /\ Becomes(d, Returned(rec))
      <4>1. PICK applied \in BOOLEAN, err \in Errors :
            /\ Remote(applied, err) /\ RemoveMsg(rec.msg, applied)
            /\ Becomes(d, IF err # "none" /\ rec.pc = "settled"
                          THEN [rec EXCEPT !.pc = ErrorBranch(err)] ELSE Returned(rec))
        BY <3>2
      <4>2. applied = TRUE /\ err = "none"
        BY <1>2, <4>1
      <4>3. QED
        BY <4>1, <4>2
    <3>4. Returned(rec).run = rec.run
      BY <1>1 DEF Returned, DeliveryRecord
    <3>5. rec.pc \in Handling /\ rec.pc \notin Working
      BY <3>1 DEF Handling, Working
    <3>6. QED
      BY <2>1, <3>1, <3>3, <3>4, <3>5, TendedDeliveryStep
  <2>4. CASE Nak(d) \/ RecordFailure(d)
    BY <1>1, <2>4 DEF Nak, RecordFailure, SteadyRecord
  <2>5. CASE ReadSnapshot(d)
    <3>1. PICK c, a : Becomes(d, [rec EXCEPT !.pc = "resolve", !.status = FreshStatus,
                                      !.cancel = c, !.approval = a])
      BY <2>5 DEF ReadSnapshot
    <3> DEFINE next == [rec EXCEPT !.pc = "resolve", !.status = FreshStatus,
                                   !.cancel = c, !.approval = a]
    <3>2. next.pc = "resolve" /\ next.run = rec.run
      BY <1>1 DEF DeliveryRecord
    <3>3. Becomes(d, next) /\ UNCHANGED <<runsKv, reached, workStream>>
      BY <2>5, <3>1 DEF ReadSnapshot
    <3> HIDE DEF next
    <3>4. next.pc \in Working
      BY <3>2 DEF Working
    <3>5. QED
      BY <3>2, <3>3, <3>4, TendedDeliveryStep
  <2>6. CASE FailResolve(d)
    <3> DEFINE next == [rec EXCEPT !.pc = "settled"]
               snap == Snap("FAILED", FALSE, rec.approval)
    <3>1. PutRun(rec.run, snap, TRUE) /\ Becomes(d, next)
      <4>1. PICK applied \in BOOLEAN, err \in Errors :
            /\ Remote(applied, err)
            /\ PutRun(rec.run, snap, applied)
            /\ Becomes(d, [rec EXCEPT !.pc =
                            IF err = "none" THEN "settled" ELSE ErrorBranch(err)])
        BY <2>6 DEF FailResolve
      <4>2. applied = TRUE /\ err = "none"
        BY <1>2, <4>1
      <4>3. QED
        BY <4>1, <4>2
    <3>2. next.run = rec.run
      BY <1>1 DEF DeliveryRecord
    <3>3. snap.status \in Terminal /\ UNCHANGED workStream
      BY <2>6 DEF Snap, Terminal, FailResolve
    <3> HIDE DEF next, snap
    <3>4. QED
      BY <3>1, <3>2, <3>3, TendedDeliveryStep
  <2>7. CASE TakeOwnership(d)
    <3> DEFINE next == [rec EXCEPT !.heartbeat = "idle", !.pc = "start"]
               snap == LiveSnapshot(d)
    <3>1. PutRun(rec.run, snap, TRUE) /\ Becomes(d, next)
      <4>1. PICK applied \in BOOLEAN, err \in Errors :
            /\ Remote(applied, err)
            /\ PutRun(rec.run, snap, applied)
            /\ Becomes(d, [rec EXCEPT !.heartbeat = "idle",
                            !.pc = IF err = "none" THEN "start" ELSE ErrorBranch(err)])
        BY <2>7 DEF TakeOwnership
      <4>2. applied = TRUE /\ err = "none"
        BY <1>2, <4>1
      <4>3. QED
        BY <4>1, <4>2
    <3>2. next.run = rec.run /\ next.pc = "start" /\ rec.pc = "resolve" /\ UNCHANGED workStream
      BY <1>1, <2>7 DEF DeliveryRecord, TakeOwnership
    <3> HIDE DEF next, snap
    <3>3. next.pc \in Working /\ rec.pc \in Working
      BY <3>2 DEF Working
    <3>4. QED
      BY <3>1, <3>2, <3>3, TendedDeliveryStep
  <2>8. CASE Finalize(d)
    <3> DEFINE next == [rec EXCEPT !.heartbeat = "off", !.pc = "settled"]
               snap == ContextSnapshot(d)
    <3>1. PutRun(rec.run, snap, TRUE) /\ Becomes(d, next)
      <4>1. rec.heartbeat \notin {"NatsError", "Exception"}
        BY <1>1, <2>8 DEF Finalize, SteadyRecord
      <4>2. PICK applied \in BOOLEAN, err \in Errors :
            /\ Remote(applied, err)
            /\ PutRun(rec.run, snap, applied)
            /\ Becomes(d, [rec EXCEPT !.heartbeat = "off",
                            !.pc = IF err = "none" THEN "settled" ELSE ErrorBranch(err)])
        BY <2>8, <4>1 DEF Finalize
      <4>3. applied = TRUE /\ err = "none"
        BY <1>2, <4>2
      <4>4. QED
        BY <4>2, <4>3
    <3>2. next.run = rec.run
      BY <1>1 DEF DeliveryRecord
    <3>3. snap.status \in Terminal /\ UNCHANGED workStream
      BY <1>1, <2>8 DEF Finalize, DeliverySound
    <3> HIDE DEF next, snap
    <3>4. QED
      BY <3>1, <3>2, <3>3, TendedDeliveryStep
  <2>9. QED
    BY <1>6, <2>2, <2>3, <2>4, <2>5, <2>6, <2>7, <2>8 DEF HandlerStep
<1>7. ASSUME NEW d \in Slots, BackgroundStep(d) \/ EngineStep(d) \/ EngineEvent(d)
      PROVE  TendedInv'
  <2> DEFINE rec == delivery[d]
  <2>1. UNCHANGED workStream
    BY <1>7 DEF BackgroundStep, HeartbeatRead, HeartbeatPut, Flush, EngineStep, EngineStart,
                EngineComplete, EngineCancelled, EngineFail, EngineEnd, EngineEvent, storeVars
  <2>2. CASE HeartbeatRead(d)
    <3>1. PICK c, s : Becomes(d, [rec EXCEPT !.heartbeat = "read", !.cancel = c, !.status = s])
      BY <2>2 DEF HeartbeatRead
    <3> DEFINE next == [rec EXCEPT !.heartbeat = "read", !.cancel = c, !.status = s]
    <3>2. next.pc = rec.pc /\ next.run = rec.run
      BY <1>1 DEF DeliveryRecord
    <3>3. Becomes(d, next) /\ UNCHANGED <<runsKv, reached>>
      BY <2>2, <3>1 DEF HeartbeatRead
    <3> HIDE DEF next
    <3>4. QED
      BY <2>1, <3>2, <3>3, TendedDeliveryStep
  <2>3. CASE HeartbeatPut(d)
    <3>1. PICK h \in {"idle", "NatsError", "Exception"}, applied \in BOOLEAN, err \in Errors :
            /\ Remote(applied, err)
            /\ PutRun(rec.run, LiveSnapshot(d), applied)
            /\ Becomes(d, [rec EXCEPT !.heartbeat = h])
      BY <2>3 DEF HeartbeatPut, Errors
    <3> DEFINE next == [rec EXCEPT !.heartbeat = h]
               snap == LiveSnapshot(d)
    <3>2. next.pc = rec.pc /\ next.run = rec.run
      BY <1>1 DEF DeliveryRecord
    <3>3. rec.pc \in Working
      BY <1>1, <2>3 DEF HeartbeatPut, SteadyRecord, DeliveryRecord, Handling, Working
    <3>4. PutRun(rec.run, snap, TRUE) /\ Becomes(d, next)
      BY <1>2, <3>1
    <3> HIDE DEF next, snap
    <3>5. QED
      BY <2>1, <3>2, <3>3, <3>4, TendedDeliveryStep
  <2>4. CASE Flush(d)
    <3>1. PICK f \in {"idle", "scheduled", "stale"}, applied \in BOOLEAN, err \in Errors :
            /\ Remote(applied, err)
            /\ PutRun(rec.run, ContextSnapshot(d), applied)
            /\ Becomes(d, [rec EXCEPT !.flush = f])
      BY <2>4 DEF Flush
    <3> DEFINE next == [rec EXCEPT !.flush = f]
               snap == ContextSnapshot(d)
    <3>2. next.pc = rec.pc /\ next.run = rec.run
      BY <1>1 DEF DeliveryRecord
    <3>3. rec.pc \in Working \/ snap.status \in Terminal
      BY <1>1, <2>4 DEF Flush, Flushing, SteadyRecord, DeliveryRecord, Handling, Working
    <3>4. PutRun(rec.run, snap, TRUE) /\ Becomes(d, next)
      BY <1>2, <3>1
    <3> HIDE DEF next, snap
    <3>5. QED
      BY <2>1, <3>2, <3>3, <3>4, TendedDeliveryStep
  <2>5. CASE EngineStep(d) \/ EngineEvent(d)
    <3>1. PICK pc \in {"engine", "final"}, s \in Statuses, f \in {"scheduled", "dirty"} :
            \/ Becomes(d, [rec EXCEPT !.pc = pc, !.status = s, !.flush = f])
            \/ Becomes(d, [rec EXCEPT !.flush = f])
      BY <2>5 DEF EngineStep, EngineStart, EngineComplete, EngineCancelled, EngineFail,
                  EngineEnd, EngineEvent, MarkedDirty, Statuses, Terminal
    <3>2. UNCHANGED <<runsKv, reached>>
      BY <2>5 DEF EngineStep, EngineStart, EngineComplete, EngineCancelled, EngineFail,
                  EngineEnd, EngineEvent, storeVars
    <3>3. /\ [rec EXCEPT !.pc = pc, !.status = s, !.flush = f].run = rec.run
          /\ [rec EXCEPT !.pc = pc, !.status = s, !.flush = f].pc = pc
          /\ [rec EXCEPT !.flush = f].run = rec.run
          /\ [rec EXCEPT !.flush = f].pc = rec.pc
      BY <1>1 DEF DeliveryRecord
    <3>4. pc \in Working
      BY DEF Working
    <3>5. PICK next : Becomes(d, next) /\ next.run = rec.run
                      /\ (rec.pc \in Working => next.pc \in Working)
      BY <3>1, <3>3, <3>4, Zenon
    <3>6. QED
      BY <2>1, <3>2, <3>5, TendedDeliveryStep
  <2>6. QED
    BY <1>7, <2>2, <2>3, <2>4, <2>5 DEF BackgroundStep
<1>8. QED
  BY <1>3, <1>5, <1>6, <1>7, AckWaitCalm DEF WorkerNext, LoseProgress, WorkerCrash


LEMMA GatewayTended ==
    ASSUME Typed, CancelInv, ApprovalInv, SteadyInv, TendedInv, GatewayNext,
           UNCHANGED <<delivery, faultsLeft>>
    PROVE  TendedInv'
<1>1. PICK q \in Requests : RequestStep(q) \/ GatewayCrash(q)
  BY DEF GatewayNext
<1> DEFINE r == ReqRun[q]
           was == request[q]
<1>2. /\ request \in [Requests -> RequestRecord] /\ r \in Runs /\ was \in RequestRecord
      /\ runsKv \in [Runs -> Snapshot] /\ workStream \in [Msgs -> Message] /\ faultsLeft \in Nat
      /\ SteadyRequest(q) /\ RequestJustified(q) /\ TendedRun(r) /\ TendedCancel(q)
  BY DEF Typed, TypeOK, StoreTypeOK, GatewayTypeOK, SteadyInv, TendedInv, CancelInv
<1>3. \A applied \in BOOLEAN, err \in Errors : Remote(applied, err) => applied = TRUE /\ err = "none"
  BY <1>2, RemoteCalm
\* What a step of the request leaves of the runs' tending.
<1>4. ASSUME \A p \in Requests : p # q => request'[p] = request[p],
             \A m \in Msgs : workStream[m].state # "unused" => workStream'[m] = workStream[m],
             Enqueues(q) /\ was.pc \in {"relate", "publish"} =>
                \/ request'[q].pc \in {"relate", "publish"}
                \/ \E m \in Msgs : workStream'[m].run = r /\ workStream'[m].state = "ready"
      PROVE  \A s \in Runs : Tended(s) => Tended(s)'
  <2> SUFFICES ASSUME NEW s \in Runs, Tended(s) PROVE Tended(s)'
    OBVIOUS
  <2>1. CASE \E m \in Msgs : workStream[m].run = s /\ workStream[m].state = "ready"
    BY <1>4, <2>1 DEF Tended
  <2>2. CASE \E d \in Slots : /\ delivery[d].run = s
                              /\ delivery[d].pc \in {"fetched", "resolve", "start", "engine", "final"}
    BY <2>2 DEF Tended
  <2>3. CASE \E p \in Requests : /\ ReqRun[p] = s /\ Enqueues(p)
                                 /\ request[p].pc \in {"relate", "publish"}
    <3>1. PICK p \in Requests : /\ ReqRun[p] = s /\ Enqueues(p)
                                /\ request[p].pc \in {"relate", "publish"}
      BY <2>3
    <3>2. CASE p = q
      BY <1>4, <3>1, <3>2 DEF Tended, Enqueues
    <3>3. CASE p # q
      BY <1>4, <3>1, <3>3 DEF Tended, Enqueues
    <3>4. QED
      BY <3>2, <3>3
  <2>4. QED
    BY <2>1, <2>2, <2>3 DEF Tended
\* A step to pc that keeps what the request has read.
<1>5. ASSUME NEW pc \in {"relate", "publish", "done"},
             Goto(q, pc) \/ (pc = "done" /\ Answer(q, "accepted"))
      PROVE  /\ request'[q].pc = pc
             /\ \A p \in Requests : p # q => request'[p] = request[p]
             /\ TendedCancel(q)'
  <2>1. request'[q].pc = pc /\ \A p \in Requests : p # q => request'[p] = request[p]
    BY <1>2, <1>5 DEF Goto, Answer, RequestRecord
  <2>2. QED
    BY <2>1 DEF TendedCancel
<1>6. CASE SubmitPut(q)
  <2> DEFINE snap == InitialSnapshot(ReqKind[q])
  <2>1. PICK pc \in {"relate", "publish"} :
          /\ PutRun(r, snap, TRUE) /\ Goto(q, pc)
          /\ ReqKind[q] \in SubmitKinds /\ was.pc = "new" /\ UNCHANGED workStream
    <3>1. PICK applied \in BOOLEAN, err \in Errors :
            /\ Remote(applied, err) /\ PutRun(r, snap, applied)
            /\ err = "none" =>
                Goto(q, IF ReqKind[q] \in {"bundle", "spawnBundle"} THEN "relate" ELSE "publish")
      BY <1>6 DEF SubmitPut
    <3>2. applied = TRUE /\ err = "none"
      BY <1>3, <3>1
    <3>3. QED
      BY <1>6, <3>1, <3>2 DEF SubmitPut, At
  <2>2. snap.status \in {"PENDING", "PENDING_APPROVAL"}
        /\ (snap.status = "PENDING_APPROVAL" \/ Enqueues(q))
    BY <2>1 DEF InitialSnapshot, Snap, SubmitKinds, Enqueues
  <2>3. runsKv' = [runsKv EXCEPT ![r] = snap] /\ reached \subseteq reached'
    BY <2>1 DEF PutRun
  <2> HIDE DEF snap
  <2>4. runsKv'[r] = snap /\ \A s \in Runs : s # r => runsKv'[s] = runsKv[s]
    BY <1>2, <2>3
  <2>5. /\ request'[q].pc = pc /\ TendedCancel(q)'
        /\ \A p \in Requests : p # q => request'[p] = request[p]
    BY <1>5, <2>1
  <2>6. snap.status = "PENDING_APPROVAL" \/ Tended(r)'
    BY <2>2, <2>5 DEF Tended, Enqueues
  <2>7. \A s \in Runs : Tended(s) => Tended(s)'
    BY <1>4, <2>1, <2>5
  <2>8. QED
    BY <2>3, <2>4, <2>5, <2>6, <2>7, TendedStep
<1>7. CASE RelatePut(q)
  <2>1. PICK pc \in {"publish", "done"} :
          /\ Goto(q, pc) \/ (pc = "done" /\ Answer(q, "accepted"))
          /\ pc = "done" => ReqKind[q] = "spawnBundle"
          /\ UNCHANGED <<runsKv, reached, workStream>>
    <3>1. PICK applied \in BOOLEAN, err \in Errors :
            /\ Remote(applied, err)
            /\ err = "none" => \/ ReqKind[q] = "bundle" /\ Goto(q, "publish")
                               \/ ReqKind[q] = "spawnBundle" /\ Answer(q, "accepted")
      BY <1>7 DEF RelatePut
    <3>2. err = "none"
      BY <1>3, <3>1
    <3>3. QED
      BY <1>7, <3>1, <3>2 DEF RelatePut
  <2>2. /\ request'[q].pc = pc /\ TendedCancel(q)'
        /\ \A p \in Requests : p # q => request'[p] = request[p]
    BY <1>5, <2>1
  <2>3. \A s \in Runs : Tended(s) => Tended(s)'
    BY <1>4, <2>1, <2>2 DEF Enqueues
  <2>4. QED
    BY <2>1, <2>2, <2>3, TendedStep
<1>8. CASE PublishJob(q)
  <2>1. PublishRun(r, TRUE) /\ Answer(q, "accepted") /\ UNCHANGED <<runsKv, reached>>
    <3>1. PICK applied \in BOOLEAN, err \in Errors :
            /\ Remote(applied, err) /\ PublishRun(r, applied)
            /\ err = "none" => Answer(q, "accepted")
      BY <1>8 DEF PublishJob
    <3>2. applied = TRUE /\ err = "none"
      BY <1>3, <3>1
    <3>3. QED
      BY <1>8, <3>1, <3>2 DEF PublishJob
  <2>2. PICK m \in Msgs :
          /\ workStream[m].state = "unused"
          /\ workStream' = [workStream EXCEPT ![m] = [state |-> "ready", run |-> r, tries |-> 0]]
    BY <2>1 DEF PublishRun
  <2>3. /\ workStream'[m].state = "ready" /\ workStream'[m].run = r
        /\ \A k \in Msgs : k # m => workStream'[k] = workStream[k]
    BY <1>2, <2>2
  <2>4. /\ TendedCancel(q)' /\ \A p \in Requests : p # q => request'[p] = request[p]
    BY <1>5, <2>1
  <2>5. \A s \in Runs : Tended(s) => Tended(s)'
    BY <1>4, <2>2, <2>3, <2>4
  <2>6. QED
    BY <2>1, <2>4, <2>5, TendedStep
<1>9. CASE Undo(q) \/ GatewayCrash(q)
  <2>1. faultsLeft - 1 # faultsLeft
    BY <1>2
  <2>2. QED
    BY <1>2, <1>9, <2>1 DEF Undo, GatewayCrash, SteadyRequest
<1>10. CASE ReadRun(q)
  <2> DEFINE seen == runsKv[r]
  <2>1. PICK pc \in {"put", "done"}, answer \in {"none", "accepted", "refused"} :
          /\ request' = [request EXCEPT ![q] = [pc |-> pc, seen |-> seen, answer |-> answer]]
          /\ pc = "put" => Decidable(ReqKind[q], seen)
          /\ was.pc = "new" /\ UNCHANGED <<runsKv, reached, workStream>>
    <3>1. PICK err \in Errors :
            /\ Remote(TRUE, err)
            /\ err = "none" =>
                \E pc \in {"put", "done"}, answer \in {"none", "accepted", "refused"} :
                /\ request' = [request EXCEPT ![q] =
                                    [pc |-> pc, seen |-> seen, answer |-> answer]]
                /\ pc = "put" => Decidable(ReqKind[q], seen)
      BY <1>10 DEF ReadRun
    <3>2. err = "none"
      BY <1>3, <3>1
    <3>3. QED
      BY <1>10, <3>1, <3>2 DEF ReadRun, At
  <2>2. /\ request'[q].pc = pc /\ request'[q].seen = seen
        /\ \A p \in Requests : p # q => request'[p] = request[p]
    BY <1>2, <2>1
  <2>3. \A s \in Runs : Tended(s) => Tended(s)'
    BY <1>4, <2>1, <2>2
  <2>4. ASSUME ReqKind[q] = "cancel", pc = "put", seen.status # "PENDING_APPROVAL"
        PROVE  Tended(r)' \/ r \in reached'
    <3>1. seen.status \in {"PENDING", "RUNNING", "CANCELLING"}
      BY <1>2, <2>1, <2>4 DEF Decidable, Snapshot, Statuses, Terminal
    <3>2. QED
      BY <1>2, <2>1, <2>3, <3>1 DEF TendedRun
  <2>5. TendedCancel(q)'
    BY <2>2, <2>4 DEF TendedCancel, Decides
  <2>6. QED
    BY <2>1, <2>2, <2>3, <2>5, TendedStep
<1>11. CASE DecisionPut(q)
  <2> DEFINE snap == Decided(ReqKind[q], was.seen)
  <2>1. PICK pc \in {"publish", "done"} :
          /\ PutRun(r, snap, TRUE)
          /\ Goto(q, pc) \/ (pc = "done" /\ Answer(q, "accepted"))
          /\ pc = "publish" <=> ReqKind[q] = "approve"
          /\ ReqKind[q] \in {"approve", "reject", "cancel"} /\ was.pc = "put"
          /\ UNCHANGED workStream
    <3>1. PICK applied \in BOOLEAN, err \in Errors :
            /\ Remote(applied, err) /\ PutRun(r, snap, applied)
            /\ err = "none" => \/ ReqKind[q] = "approve" /\ Goto(q, "publish")
                               \/ ReqKind[q] # "approve" /\ Answer(q, "accepted")
      BY <1>11 DEF DecisionPut
    <3>2. applied = TRUE /\ err = "none"
      BY <1>3, <3>1
    <3>3. QED
      BY <1>11, <3>1, <3>2 DEF DecisionPut, At
  <2>2. /\ ReqKind[q] = "approve" => snap.status = "PENDING"
        /\ ReqKind[q] = "reject" => snap.status = "CANCELLED"
        /\ ReqKind[q] = "cancel" => snap.status = IF Decides(q) THEN "CANCELLED" ELSE "CANCELLING"
    BY DEF Decided, Snap, Decides
  <2>3. runsKv' = [runsKv EXCEPT ![r] = snap] /\ reached \subseteq reached'
    BY <2>1 DEF PutRun
  <2> HIDE DEF snap
  <2>4. runsKv'[r] = snap /\ \A s \in Runs : s # r => runsKv'[s] = runsKv[s]
    BY <1>2, <2>3
  <2>5. /\ request'[q].pc = pc /\ TendedCancel(q)'
        /\ \A p \in Requests : p # q => request'[p] = request[p]
    BY <1>5, <2>1
  <2>6. \A s \in Runs : Tended(s) => Tended(s)'
    BY <1>4, <2>1, <2>5
  <2>7. \/ snap.status = "CANCELLED"
        \/ Tended(r)'
        \/ snap.status = "CANCELLING" /\ r \in reached'
    <3>1. CASE ReqKind[q] = "approve"
      BY <2>1, <2>5, <3>1 DEF Tended, Enqueues
    <3>2. CASE ReqKind[q] = "reject"
      BY <2>2, <3>2
    <3>3. CASE ReqKind[q] = "cancel"
      BY <1>2, <2>1, <2>2, <2>3, <2>6, <3>3 DEF TendedCancel
    <3>4. QED
      BY <2>1, <3>1, <3>2, <3>3
  <2>8. QED
    BY <2>3, <2>4, <2>5, <2>6, <2>7, TendedStep
<1>12. QED
  BY <1>1, <1>6, <1>7, <1>8, <1>9, <1>10, <1>11 DEF RequestStep

LEMMA TendedInvariant == Spec => []TendedCalm
<1>1. Typed /\ QueueInv /\ CancelInv /\ ApprovalInv /\ CalmInv /\ TendedCalm /\ [Next]_vars
        => TendedCalm'
  <2>1. ASSUME Typed, QueueInv, CancelInv, ApprovalInv, CalmInv, TendedCalm, Next,
               faultsLeft' = MaxFaults
        PROVE  TendedInv'
    <3>1. UNCHANGED faultsLeft /\ SteadyInv /\ TendedInv
      BY <2>1, FaultsFall DEF CalmInv, TendedCalm, Typed, TypeOK, StoreTypeOK
    <3>2. QED
      BY <2>1, <3>1, GatewayTended, WorkerTended DEF Next
  <2>2. ASSUME TendedCalm, UNCHANGED vars PROVE TendedCalm'
    BY <2>2 DEF vars, TendedCalm, TendedInv, TendedRun, TendedCancel, Tended, Enqueues, Decides
  <2>3. QED
    BY <2>1, <2>2 DEF TendedCalm
<1>2. Init => TendedCalm
  BY DEF Init, StoreInit, GatewayInit, Absent, Snap, TendedCalm, TendedInv, TendedRun,
         TendedCancel
<1>3. QED
  BY <1>1, <1>2, TypeCorrect, QueueInvariant, CancelInvariant, ApprovalInvariant, CalmInvariant,
     PTL DEF Spec

\* While nothing has failed, a run shown as PENDING or RUNNING has its job in the
\* queue or a worker on it, or is about to be queued; and so has one shown as
\* CANCELLING, unless it had ended when the cancel (http_api.py) put that.
THEOREM HangingIsPaidFor == Spec => []HangingNeedsFaults
<1>1. TendedCalm => HangingNeedsFaults
  BY DEF TendedCalm, TendedInv, TendedRun, HangingNeedsFaults
<1>2. QED
  BY <1>1, TendedInvariant, PTL

=============================================================================
