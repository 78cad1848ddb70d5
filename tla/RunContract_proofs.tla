------------------------- MODULE RunContract_proofs -------------------------
(***************************************************************************)
(* RunSystem implements RunContract, for every instance: its initial state *)
(* maps to an initial state of the contract, and each of its steps to a    *)
(* step of the contract or to none.  The first part says which change of   *)
(* RunSystem's variables is which step of the contract, the second adds an *)
(* invariant for the grounds on which statuses are shown, the third goes   *)
(* through the actions.                                                    *)
(***************************************************************************)
EXTENDS RunDecisions_proofs

USE StoreAssumption, GatewayAssumption, WorkerAssumption

-----------------------------------------------------------------------------
(* What the contract sees of a state *)

InStream(r) == \E m \in Msgs : workStream[m].run = r /\ workStream[m].state # "unused"
Waiting(r) == \E m \in Msgs : workStream[m].run = r /\ workStream[m].state \in {"ready", "out"}

LEMMA JobsAre ==
    ASSUME Typed
    PROVE  /\ Jobs = [r \in Runs |-> Jobs[r]]
           /\ \A r \in Runs :
                /\ Jobs[r] = "queued" <=> Waiting(r)
                /\ Jobs[r] # "none" <=> InStream(r)
                /\ Jobs[r] \in {"none", "queued", "taken"}
BY DEF Typed, TypeOK, StoreTypeOK, Message, Jobs, Waiting, InStream

SameShown == reached' = reached /\ Shown' = Shown

LEMMA MapsToNone ==
    ASSUME UNCHANGED <<Jobs, Accepted, Approvable, StopAsked>>, SameShown
    PROVE  UNCHANGED Contract!vars
BY DEF SameShown, Contract!vars

LEMMA MapsToApprove ==
    ASSUME UNCHANGED <<Jobs, Accepted, StopAsked>>, SameShown,
           NEW k \in Runs, runsKv[k].status = "PENDING_APPROVAL",
           Approvable' = Approvable \cup {k}
    PROVE  Contract!Next
<1>1. Shown[k] = "PENDING_APPROVAL"
  BY DEF Shown
<1>2. Contract!Approve(k)
  BY <1>1 DEF SameShown, Contract!Approve
<1>3. QED
  BY <1>2 DEF Contract!Next

LEMMA MapsToAskStop ==
    ASSUME UNCHANGED <<Jobs, Accepted, Approvable>>, SameShown,
           NEW k \in Runs, StopAsked' = StopAsked \cup {k}
    PROVE  Contract!Next
<1>1. Contract!AskStop(k)
  BY DEF SameShown, Contract!AskStop
<1>2. QED
  BY <1>1 DEF Contract!Next

LEMMA MapsToEnqueue ==
    ASSUME UNCHANGED <<Approvable, StopAsked>>, SameShown,
           NEW k \in Runs, IF NeedsApproval(k) THEN k \in Approvable ELSE Jobs[k] = "none",
           Jobs' = [Jobs EXCEPT ![k] = "queued"],
           Accepted' \in {Accepted, Accepted \cup {k}}
    PROVE  Contract!Next
<1>1. Contract!Enqueue(k)
  BY DEF SameShown, Contract!Enqueue
<1>2. QED
  BY <1>1 DEF Contract!Next

LEMMA MapsToTake ==
    ASSUME UNCHANGED <<Accepted, Approvable, StopAsked>>, SameShown,
           NEW k \in Runs, Jobs[k] = "queued", k \in reached,
           Jobs' = [Jobs EXCEPT ![k] = "taken"]
    PROVE  Contract!Next
<1>1. Contract!Take(k)
  BY DEF SameShown, Contract!Take
<1>2. QED
  BY <1>1 DEF Contract!Next

\* Grounds of the contract, in RunSystem's terms.
Grounded(k, status) ==
    /\ status \in {"RUNNING", "COMPLETED", "FAILED"} => InStream(k)
    /\ status = "PENDING" /\ NeedsApproval(k) => k \in Approvable
    /\ status \in {"CANCELLING", "CANCELLED"} => StopRequested(k)'
    /\ status = "absent" => k \notin Accepted \/ NeedsApproval(k)

LEMMA MapsToShow ==
    ASSUME Typed, UNCHANGED <<Jobs, Accepted, Approvable>>,
           NEW k \in Runs, NEW snap \in Snapshot, PutRun(k, snap, TRUE),
           Grounded(k, snap.status),
           StopAsked' \in {StopAsked, StopAsked \cup {k}}
    PROVE  Contract!Next
<1> DEFINE status == snap.status
<1>1. status \in Terminal \cup {"absent", "PENDING", "PENDING_APPROVAL", "RUNNING", "CANCELLING"}
  BY DEF Snapshot, Statuses, Terminal
<1>2. Shown' = [Shown EXCEPT ![k] = status]
  BY DEF PutRun, Typed, TypeOK, StoreTypeOK, Shown
<1>3. reached' = IF status \in Terminal THEN reached \cup {k} ELSE reached
  BY DEF PutRun
<1>4. Jobs[k] # "none" <=> InStream(k)
  BY JobsAre
<1>5. Contract!Terminal = Terminal
  BY DEF Terminal, Contract!Terminal
<1> HIDE DEF status
<1>6. Contract!Grounds(k, status)
  BY <1>4 DEF Grounded, Contract!Grounds, StopAsked, status
<1>7. Contract!Show(k)
  BY <1>1, <1>2, <1>3, <1>5, <1>6 DEF Contract!Show
<1>8. QED
  BY <1>7 DEF Contract!Next

-----------------------------------------------------------------------------
(* The grounds: an invariant beside the queue, cancel and approval ones    *)

DeliveryGrounded(rec) ==
    (rec.run \in Runs => InStream(rec.run)) /\ rec.status # "PENDING_APPROVAL"

\* An answered request is done; only a waiting run of its bundle is read as
\* waiting; a submit that has not published has no message; and only requests
\* that clean up roll back.
RequestGrounded(q) ==
    /\ request[q].answer # "none" => request[q].pc = "done"
    /\ request[q].seen.status = "PENDING_APPROVAL" => NeedsApproval(ReqRun[q])
    /\ ReqKind[q] = "approve" /\ request[q].answer = "accepted"
        => request[q].seen.status = "PENDING_APPROVAL"
    /\ ReqKind[q] \in {"submit", "bundle", "client"} /\ InStream(ReqRun[q])
        => request[q].pc \in {"undo", "done"}
    /\ request[q].pc = "undo" => ReqKind[q] \in {"submit", "bundle", "spawnBundle", "approve"}

ContractInv ==
    /\ \A r \in Runs : runsKv[r].status = "PENDING_APPROVAL" => NeedsApproval(r)
    /\ \A d \in Slots : DeliveryGrounded(delivery[d])
    /\ \A q \in Requests : RequestGrounded(q)

LEMMA InitContract == Init => ContractInv
<1> SUFFICES ASSUME Init PROVE ContractInv
  OBVIOUS
<1>1. \A m \in Msgs : workStream[m].run = NoRun
  BY DEF Init, StoreInit
<1>2. \A r \in Runs : ~InStream(r)
  BY <1>1 DEF InStream
<1>3. \A r \in Runs : runsKv[r].status # "PENDING_APPROVAL"
  BY DEF Init, StoreInit, Absent, Snap
<1>4. \A d \in Slots : DeliveryGrounded(delivery[d])
  BY DEF Init, WorkerInit, FreeSlot, DeliveryGrounded
<1>5. \A q \in Requests : RequestGrounded(q)
  BY <1>2 DEF Init, GatewayInit, RequestGrounded, Absent, Snap
<1>6. QED
  BY <1>3, <1>4, <1>5 DEF ContractInv

LEMMA InitMaps == Init => Contract!Init
<1> SUFFICES ASSUME Init PROVE Contract!Init
  OBVIOUS
<1>1. Jobs = [r \in Runs |-> "none"]
  BY DEF Init, StoreInit, Jobs, Msgs
<1>2. Shown = [r \in Runs |-> "absent"]
  BY DEF Init, StoreInit, Shown, Absent, Snap
<1>3. Accepted = {} /\ Approvable = {} /\ StopAsked = {}
  BY DEF Init, GatewayInit, Accepted, Approvable, StopAsked, StopRequested, Absent, Snap
<1>4. QED
  BY <1>1, <1>2, <1>3 DEF Contract!Init, Init, StoreInit

-----------------------------------------------------------------------------
(* Workers *)

\* The stream before and after, for the contract.
StreamSame ==
    \A m \in Msgs :
        /\ workStream'[m].run = workStream[m].run
        /\ workStream'[m].state \in {"ready", "out"} <=> workStream[m].state \in {"ready", "out"}
        /\ workStream'[m].state = "gone" <=> workStream[m].state = "gone"
        /\ workStream'[m].state = "unused" <=> workStream[m].state = "unused"

LEMMA SameJobs ==
    ASSUME StreamSame
    PROVE  Jobs' = Jobs /\ \A r : InStream(r)' <=> InStream(r)
BY DEF StreamSame, Jobs, InStream

\* Handing a message out, or taking it back.
LEMMA RequeueSame ==
    ASSUME Typed, NEW m \in Msgs, workStream[m].state \in {"ready", "out"},
           \/ workStream' = [workStream EXCEPT ![m].state = "ready"]
           \/ workStream' = [workStream EXCEPT ![m].state = "out", ![m].tries = @ + 1]
    PROVE  StreamSame
BY DEF Typed, TypeOK, StoreTypeOK, Message, StreamSame

\* Dropping a message: nothing the contract sees, or the end of a job.
LEMMA RemoveMaps ==
    ASSUME Typed, UNCHANGED request, UNCHANGED <<runsKv, reached>>,
           NEW m \in Msgs, NEW applied \in BOOLEAN, RemoveMsg(m, applied),
           workStream[m].state # "unused",
           workStream[m].run = NoRun \/ workStream[m].run \in reached
    PROVE  /\ [Contract!Next]_(Contract!vars)
           /\ \A r : InStream(r)' <=> InStream(r)
<1>1. workStream \in [Msgs -> Message] /\ reached \subseteq Runs /\ NoRun \notin Runs
  BY DEF Typed, TypeOK, StoreTypeOK
<1>2. UNCHANGED <<Accepted, Approvable, StopAsked>> /\ SameShown
  BY DEF Accepted, Approvable, StopAsked, StopRequested, SameShown, Shown, Enqueues
<1>3. \A k \in Msgs : /\ workStream'[k].run = workStream[k].run
                      /\ k # m => workStream'[k] = workStream[k]
                      /\ workStream'[k].state \in {workStream[k].state, "gone"}
                      /\ workStream'[k].state = "unused" => workStream[k].state = "unused"
  BY <1>1 DEF RemoveMsg, Message
<1>4. \A r : InStream(r)' <=> InStream(r)
  BY <1>3 DEF InStream
<1>5. CASE Jobs' = Jobs
  BY <1>2, <1>4, <1>5, MapsToNone
<1>6. CASE Jobs' # Jobs
  <2> DEFINE k == workStream[m].run
  <2>1. applied /\ workStream'[m].state = "gone"
    BY <1>1, <1>6 DEF RemoveMsg, Jobs, Message
  <2>2. workStream[m].state \in {"ready", "out"}
    <3>1. ASSUME workStream[m].state = "gone" PROVE workStream' = workStream
      BY <1>1, <2>1, <3>1 DEF RemoveMsg, Message
    <3>2. workStream[m].state \in {"ready", "out", "gone"}
      BY <1>1 DEF Message
    <3>3. QED
      BY <1>6, <3>1, <3>2 DEF Jobs
  <2>3. \A r \in Runs : r # k => Jobs'[r] = Jobs[r]
    <3>1. \A r \in Runs, n \in Msgs : r # k /\ workStream[n].run = r => workStream'[n] = workStream[n]
      BY <1>3
    <3>2. \A r \in Runs, n \in Msgs :
            r # k => (workStream'[n].run = r <=> workStream[n].run = r)
      BY <1>3
    <3>3. QED
      BY <3>1, <3>2 DEF Jobs
  <2>4. k \in Runs
    <3>1. ASSUME k = NoRun PROVE Jobs' = Jobs
      BY <1>1, <2>3, <3>1 DEF Jobs
    <3>2. QED
      BY <1>1, <1>6, <3>1
  <2>5. Jobs[k] = "queued" /\ Jobs'[k] \in {"queued", "taken"}
    BY <1>3, <2>1, <2>2, <2>4 DEF Jobs
  <2>6. Jobs = [r \in Runs |-> Jobs[r]] /\ Jobs' = [r \in Runs |-> Jobs'[r]]
    BY DEF Jobs
  <2>7. Jobs' = [Jobs EXCEPT ![k] = "taken"]
    <3>1. Jobs'[k] = "taken"
      <4>1. ASSUME Jobs'[k] = "queued" PROVE Jobs' = Jobs
        BY <2>3, <2>5, <2>6, <4>1
      <4>2. QED
        BY <1>6, <2>5, <4>1
    <3>2. QED
      BY <2>3, <2>4, <2>6, <3>1
  <2>8. k \in reached
    BY <1>1, <2>4
  <2> HIDE DEF k
  <2>9. QED
    BY <1>2, <1>4, <2>4, <2>5, <2>7, <2>8, MapsToTake
<1>7. QED
  BY <1>4, <1>5, <1>6

Written(d) == {ContextSnapshot(d), LiveSnapshot(d), FallbackSnapshot,
               Snap("FAILED", FALSE, delivery[d].approval)}

\* What a worker stores about a run has its grounds.
LEMMA WrittenGrounded ==
    ASSUME Typed, CancelInv, ApprovalInv, ContractInv, UNCHANGED request,
           NEW d \in Slots, NEW k \in Runs, delivery[d].run = k, NEW snap \in Written(d)
    PROVE  /\ snap \in Snapshot /\ snap.status # "PENDING_APPROVAL"
           /\ Grounded(k, snap.status)
<1>1. /\ delivery[d] \in DeliveryRecord /\ DeliveryJustified(delivery[d])
      /\ InStream(k) /\ delivery[d].status # "PENDING_APPROVAL"
  BY DEF Typed, WellFormed, CancelInv, ContractInv, DeliveryGrounded
<1>2. snap \in Snapshot
  BY <1>1, WrittenTyped DEF Written
<1>3. snap.status \in {delivery[d].status, "CANCELLING", "FAILED"}
  BY DEF Written, ContextSnapshot, LiveSnapshot, FallbackSnapshot, Snap
<1>4. delivery[d].status # "absent"
  BY <1>1 DEF DeliveryRecord, Statuses, Terminal
<1>5. NeedsApproval(k) => k \in Approvable
  <2>1. PICK m \in Msgs : workStream[m].run = k /\ workStream[m].run # NoRun
    BY <1>1 DEF InStream
  <2>2. ASSUME NeedsApproval(k) PROVE k \in Approvable
    <3>1. PICK q \in Requests : ReqRun[q] = k /\ ReqKind[q] = "approve"
                                    /\ request[q].seen.status = "PENDING_APPROVAL"
      BY <2>1, <2>2 DEF ApprovalInv, ApprovalGate
    <3>2. QED
      BY <3>1 DEF Approvable
  <2>3. QED
    BY <2>2
<1>6. snap.status \in {"CANCELLING", "CANCELLED"} => StopRequested(k)'
  <2>1. CancelRequested(snap) => StopRequested(k)
    BY <1>1, WrittenJustified DEF Written
  <2>2. StopRequested(k) => StopRequested(k)'
    BY DEF StopRequested
  <2>3. QED
    BY <2>1, <2>2 DEF CancelRequested
<1>7. QED
  BY <1>1, <1>2, <1>3, <1>4, <1>5, <1>6 DEF Grounded

\* The kinds of steps a worker makes, as the contract and its grounds see them.
Quiet == StreamSame /\ UNCHANGED <<runsKv, reached>>

Puts == \E d \in Slots, k \in Runs : \E applied \in BOOLEAN, snap \in Written(d) :
    /\ delivery[d].run = k
    /\ PutRun(k, snap, applied)
    /\ UNCHANGED workStream

Removes == \E m \in Msgs, applied \in BOOLEAN :
    /\ RemoveMsg(m, applied)
    /\ workStream[m].state # "unused"
    /\ workStream[m].run = NoRun \/ workStream[m].run \in reached
    /\ UNCHANGED <<runsKv, reached>>

Effect == Quiet \/ Puts \/ Removes

DeliveriesGrounded == \A d \in Slots : DeliveryGrounded(delivery'[d])

\* A delivery that keeps its run.
LEMMA DeliveryKeeps ==
    ASSUME Typed, ContractInv, NEW d \in Slots, NEW rec, Becomes(d, rec),
           rec.run = delivery[d].run, rec.status # "PENDING_APPROVAL"
    PROVE  DeliveriesGrounded
<1>1. delivery \in [Slots -> DeliveryRecord]
  BY DEF Typed, TypeOK, WorkerTypeOK
<1>2. SUFFICES ASSUME NEW e \in Slots PROVE DeliveryGrounded(delivery'[e])
  BY DEF DeliveriesGrounded
<1>3. CASE e = d
  BY <1>1, <1>3 DEF Becomes, ContractInv, DeliveryGrounded
<1>4. CASE e # d
  BY <1>1, <1>4 DEF Becomes, ContractInv
<1>5. QED
  BY <1>3, <1>4

LEMMA UnchangedQuiet == UNCHANGED <<runsKv, reached, workStream>> => Quiet
BY DEF Quiet, StreamSame

LEMMA HandlerEffect ==
    ASSUME Typed, QueueInv, ContractInv, NEW d \in Slots, HandlerStep(d)
    PROVE  Effect /\ DeliveriesGrounded
<1> DEFINE rec == delivery[d]
<1>1. /\ rec \in DeliveryRecord /\ DeliverySound(rec) /\ rec.status # "PENDING_APPROVAL"
      /\ WellFormed(rec)
  BY DEF Typed, WellFormed, QueueInv, ContractInv, DeliveryGrounded
<1>2. /\ rec.pc \in Handling => /\ rec.msg \in Msgs
                                /\ workStream[rec.msg].state # "unused"
                                /\ rec.run = workStream[rec.msg].run
      /\ rec.pc \in Handling \ {"fetched"} => rec.run \in Runs
  BY <1>1 DEF WellFormed, DeliverySound
\* What becomes of the delivery, where it keeps its status.
<1>3. ASSUME NEW pc, NEW h, NEW p,
             \/ Becomes(d, [rec EXCEPT !.pc = pc])
             \/ Becomes(d, [rec EXCEPT !.heartbeat = h, !.pc = pc])
             \/ Becomes(d, [rec EXCEPT !.pc = pc, !.progress = p])
      PROVE  DeliveriesGrounded
  BY <1>1, <1>3, DeliveryKeeps DEF DeliveryRecord
<1>4. CASE DiscardInvalid(d)
  <2>1. Removes
    BY <1>2, <1>4 DEF DiscardInvalid, Removes, Handling
  <2>2. DeliveriesGrounded
    BY <1>3, <1>4 DEF DiscardInvalid, Returned
  <2>3. QED
    BY <2>1, <2>2 DEF Effect
<1>5. CASE Ack(d)
  <2>1. rec.pc \in {"settled", "closing"} /\ rec.run \in reached
    BY <1>1, <1>5 DEF Ack, DeliverySound
  <2>2. Effect
    BY <1>2, <1>5, <2>1, UnchangedQuiet DEF Ack, Removes, Handling, Effect
  <2>3. DeliveriesGrounded
    BY <1>3, <1>5 DEF Ack, Returned
  <2>4. QED
    BY <2>2, <2>3
<1>6. CASE Nak(d)
  <2>1. rec.pc = "failed" /\ UNCHANGED <<runsKv, reached>>
    BY <1>6 DEF Nak
  <2>2. \/ UNCHANGED workStream
        \/ /\ workStream[rec.msg].state = "out"
           /\ workStream' = [workStream EXCEPT ![rec.msg].state = "ready"]
    BY <1>6 DEF Nak
  <2>3. Quiet
    BY <1>2, <2>1, <2>2, RequeueSame, UnchangedQuiet DEF Handling, Quiet
  <2>4. DeliveriesGrounded
    BY <1>3, <1>6 DEF Nak, Returned
  <2>5. QED
    BY <2>3, <2>4 DEF Effect
<1>7. CASE RecordFailure(d) \/ FailResolve(d)
  <2>1. rec.run \in Runs
    BY <1>2, <1>7 DEF RecordFailure, FailResolve, Handling
  <2>2. Puts
    BY <1>7, <2>1 DEF RecordFailure, FailResolve, Puts, Written
  <2>3. DeliveriesGrounded
    BY <1>3, <1>7 DEF RecordFailure, FailResolve
  <2>4. QED
    BY <2>2, <2>3 DEF Effect
<1>8. CASE ReadSnapshot(d)
  <2>1. PICK c, a : Becomes(d, [rec EXCEPT !.pc = "resolve", !.status = FreshStatus,
                                    !.cancel = c, !.approval = a])
    BY <1>8 DEF ReadSnapshot
  <2>2. DeliveriesGrounded
    <3> DEFINE new == [rec EXCEPT !.pc = "resolve", !.status = FreshStatus,
                                  !.cancel = c, !.approval = a]
    <3>1. new.run = rec.run /\ new.status # "PENDING_APPROVAL"
      BY <1>1 DEF DeliveryRecord, FreshStatus
    <3>2. Becomes(d, new)
      BY <2>1
    <3> HIDE DEF new
    <3>3. QED
      BY <3>1, <3>2, DeliveryKeeps
  <2>3. QED
    BY <1>8, <2>2, UnchangedQuiet DEF ReadSnapshot, Effect
<1>9. CASE TakeOwnership(d) \/ Finalize(d)
  <2>1. rec.run \in Runs
    BY <1>2, <1>9 DEF TakeOwnership, Finalize, Handling
  <2>2. CASE TakeOwnership(d)
    <3>1. Puts
      BY <2>1, <2>2 DEF TakeOwnership, Puts, Written
    <3>2. DeliveriesGrounded
      BY <1>3, <2>2 DEF TakeOwnership
    <3>3. QED
      BY <3>1, <3>2 DEF Effect
  <2>3. CASE Finalize(d)
    <3>1. Puts \/ Quiet
      BY <2>1, <2>3, UnchangedQuiet DEF Finalize, Puts, Written
    <3>2. DeliveriesGrounded
      BY <1>3, <2>3 DEF Finalize
    <3>3. QED
      BY <3>1, <3>2 DEF Effect
  <2>4. QED
    BY <1>9, <2>2, <2>3
<1>10. QED
  BY <1>4, <1>5, <1>6, <1>7, <1>8, <1>9 DEF HandlerStep

LEMMA BackgroundEffect ==
    ASSUME Typed, QueueInv, ContractInv, NEW d \in Slots,
           BackgroundStep(d) \/ EngineStep(d) \/ EngineEvent(d) \/ LoseProgress(d)
    PROVE  Effect /\ DeliveriesGrounded
<1> DEFINE rec == delivery[d]
<1>1. rec \in DeliveryRecord /\ rec.status # "PENDING_APPROVAL" /\ WellFormed(rec)
  BY DEF Typed, WellFormed, ContractInv, DeliveryGrounded
<1>2. CASE HeartbeatRead(d)
  <2>1. PICK c, s : /\ Becomes(d, [rec EXCEPT !.heartbeat = "read", !.cancel = c, !.status = s])
                    /\ s \in {rec.status, "CANCELLING"}
    BY <1>2 DEF HeartbeatRead, StatusAfterBeat
  <2>2. DeliveriesGrounded
    BY <1>1, <2>1, DeliveryKeeps DEF DeliveryRecord
  <2>3. QED
    BY <1>2, <2>2, UnchangedQuiet DEF HeartbeatRead, Effect
<1>3. CASE HeartbeatPut(d) \/ Flush(d)
  <2>1. rec.run \in Runs
    BY <1>1, <1>3 DEF HeartbeatPut, Flush, Flushing, WellFormed
  <2>2. Puts
    BY <1>3, <2>1 DEF HeartbeatPut, Flush, Puts, Written
  <2>3. \E x : Becomes(d, [rec EXCEPT !.heartbeat = x]) \/ Becomes(d, [rec EXCEPT !.flush = x])
    BY <1>3 DEF HeartbeatPut, Flush
  <2>4. DeliveriesGrounded
    BY <1>1, <2>3, DeliveryKeeps DEF DeliveryRecord
  <2>5. QED
    BY <2>2, <2>4 DEF Effect
<1>4. CASE EngineStep(d)
  <2>1. PICK pc, f, s : /\ Becomes(d, [rec EXCEPT !.pc = pc, !.status = s, !.flush = f])
                        /\ s \in {"RUNNING", "COMPLETED", "FAILED", "CANCELLED"}
    BY <1>4 DEF EngineStep, EngineStart, EngineComplete, EngineCancelled, EngineFail, EngineEnd
  <2>2. DeliveriesGrounded
    BY <1>1, <2>1, DeliveryKeeps DEF DeliveryRecord
  <2>3. UNCHANGED <<runsKv, reached, workStream>>
    BY <1>4 DEF EngineStep, EngineStart, EngineComplete, EngineCancelled, EngineFail,
                EngineEnd, storeVars
  <2>4. QED
    BY <2>2, <2>3, UnchangedQuiet DEF Effect
<1>5. CASE EngineEvent(d)
  <2>1. DeliveriesGrounded
    BY <1>1, <1>5, DeliveryKeeps DEF EngineEvent, DeliveryRecord
  <2>2. QED
    BY <1>5, <2>1, UnchangedQuiet DEF EngineEvent, storeVars, Effect
<1>6. CASE LoseProgress(d)
  <2>1. DeliveriesGrounded
    BY <1>1, <1>6, DeliveryKeeps DEF LoseProgress, DeliveryRecord
  <2>2. QED
    BY <1>6, <2>1, UnchangedQuiet DEF LoseProgress, Effect
<1>7. QED
  BY <1>2, <1>3, <1>4, <1>5, <1>6 DEF BackgroundStep

\* A step that stores at most one snapshot, with its grounds.
LEMMA PutMaps ==
    ASSUME Typed, UNCHANGED <<workStream, Accepted, Approvable>>,
           NEW k \in Runs, NEW snap \in Snapshot, NEW applied \in BOOLEAN,
           PutRun(k, snap, applied), Grounded(k, snap.status),
           StopAsked' \in {StopAsked, StopAsked \cup {k}}
    PROVE  [Contract!Next]_(Contract!vars)
<1>1. Jobs' = Jobs
  BY DEF Jobs
<1>2. CASE applied
  BY <1>1, <1>2, MapsToShow
<1>3. CASE ~applied
  <2>1. SameShown
    BY <1>3 DEF PutRun, SameShown, Shown
  <2>2. CASE StopAsked' = StopAsked
    BY <1>1, <2>1, <2>2, MapsToNone
  <2>3. CASE StopAsked' = StopAsked \cup {k}
    BY <1>1, <2>1, <2>3, MapsToAskStop
  <2>4. QED
    BY <2>2, <2>3
<1>4. QED
  BY <1>2, <1>3

LEMMA QuietMaps ==
    ASSUME Typed, Quiet, UNCHANGED <<Accepted, Approvable>>,
           NEW k \in Runs, StopAsked' \in {StopAsked, StopAsked \cup {k}}
    PROVE  [Contract!Next]_(Contract!vars)
<1>1. Jobs' = Jobs
  BY SameJobs DEF Quiet
<1>2. SameShown
  BY DEF Quiet, SameShown, Shown
<1>3. CASE StopAsked' = StopAsked
  BY <1>1, <1>2, <1>3, MapsToNone
<1>4. CASE StopAsked' = StopAsked \cup {k}
  BY <1>1, <1>2, <1>4, MapsToAskStop
<1>5. QED
  BY <1>3, <1>4

LEMMA WorkerContract ==
    ASSUME Typed, QueueInv, CancelInv, ApprovalInv, ContractInv, WorkerNext, UNCHANGED request
    PROVE  [Contract!Next]_(Contract!vars) /\ ContractInv'
<1>1. Effect /\ DeliveriesGrounded
  <2>1. delivery \in [Slots -> DeliveryRecord]
    BY DEF Typed, TypeOK, WorkerTypeOK
  <2>2. ASSUME NEW d \in Slots, NEW w \in Workers, NEW m \in Msgs, Fetch(d, w, m)
        PROVE  Effect /\ DeliveriesGrounded
    <3>1. workStream[m].state = "ready" /\ UNCHANGED <<runsKv, reached>>
      BY <2>2 DEF Fetch, Deliverable
    <3>2. Quiet
      BY <2>2, <3>1, RequeueSame DEF Fetch, Quiet
    <3>3. /\ delivery'[d].run = workStream[m].run /\ delivery'[d].status = "PENDING"
          /\ \A e \in Slots : e # d => delivery'[e] = delivery[e]
      BY <2>1, <2>2 DEF Fetch, Fetched, Becomes, FreeSlot
    <3>4. InStream(workStream[m].run)
      BY <3>1 DEF InStream
    <3>5. DeliveriesGrounded
      BY <3>3, <3>4 DEF DeliveriesGrounded, DeliveryGrounded, ContractInv
    <3>6. QED
      BY <3>2, <3>5 DEF Effect
  <2>3. ASSUME NEW w \in Workers, WorkerCrash(w)
        PROVE  Effect /\ DeliveriesGrounded
    <3>1. ASSUME NEW d \in Slots
          PROVE  delivery'[d].run = delivery[d].run /\ delivery'[d].status = delivery[d].status
      <4>1. \/ delivery'[d] = delivery[d]
            \/ delivery'[d] = [delivery[d] EXCEPT !.pc = "dead", !.heartbeat = "off",
                                                  !.flush = "idle", !.progress = FALSE]
        BY <2>3 DEF WorkerCrash
      <4>2. QED
        BY <2>1, <4>1 DEF DeliveryRecord
    <3>2. DeliveriesGrounded
      BY <3>1 DEF DeliveriesGrounded, DeliveryGrounded, ContractInv
    <3>3. QED
      BY <2>3, <3>2, UnchangedQuiet DEF WorkerCrash, Effect
  <2>4. ASSUME NEW m \in Msgs, AckWaitExpires(m)
        PROVE  Effect /\ DeliveriesGrounded
    <3>1. DeliveriesGrounded
      BY <2>4 DEF AckWaitExpires, DeliveriesGrounded, ContractInv
    <3>2. QED
      BY <2>4, <3>1, RequeueSame DEF AckWaitExpires, Quiet, Effect
  <2>5. QED
    BY <2>2, <2>3, <2>4, HandlerEffect, BackgroundEffect DEF WorkerNext
<1>2. UNCHANGED <<Accepted, Approvable, StopAsked>>
  BY DEF Accepted, Approvable, StopAsked, StopRequested, Enqueues
<1>3. /\ [Contract!Next]_(Contract!vars)
      /\ \A r : InStream(r)' <=> InStream(r)
      /\ \A r \in Runs : runsKv'[r].status = "PENDING_APPROVAL" => NeedsApproval(r)
  <2>1. CASE Quiet
    <3>1. \A r : InStream(r)' <=> InStream(r)
      BY <2>1, SameJobs DEF Quiet
    <3>2. [Contract!Next]_(Contract!vars)
      BY <1>2, <2>1, SameJobs, MapsToNone DEF Quiet, SameShown, Shown
    <3>3. QED
      BY <2>1, <3>1, <3>2 DEF Quiet, ContractInv
  <2>2. CASE Puts
    <3>0. PICK d \in Slots, k \in Runs : \E applied \in BOOLEAN, snap \in Written(d) :
                delivery[d].run = k /\ PutRun(k, snap, applied) /\ UNCHANGED workStream
      BY <2>2 DEF Puts
    <3>1. PICK applied \in BOOLEAN, snap \in Written(d) :
                delivery[d].run = k /\ PutRun(k, snap, applied) /\ UNCHANGED workStream
      BY <3>0
    <3>2. snap \in Snapshot /\ snap.status # "PENDING_APPROVAL" /\ Grounded(k, snap.status)
      BY <3>1, WrittenGrounded
    <3>3. [Contract!Next]_(Contract!vars)
      BY <1>2, <3>1, <3>2, PutMaps
    <3>4. \A r \in Runs : runsKv'[r].status = "PENDING_APPROVAL" => NeedsApproval(r)
      BY <3>1, <3>2 DEF PutRun, ContractInv, Typed, TypeOK, StoreTypeOK
    <3>5. \A r : InStream(r)' <=> InStream(r)
      BY <3>1 DEF InStream
    <3>6. QED
      BY <3>3, <3>4, <3>5
  <2>3. CASE Removes
    BY <2>3, RemoveMaps DEF Removes, ContractInv
  <2>4. QED
    BY <1>1, <2>1, <2>2, <2>3 DEF Effect
<1>4. \A d \in Slots : DeliveryGrounded(delivery[d])'
  BY <1>1, <1>3 DEF DeliveriesGrounded, DeliveryGrounded
<1>5. \A q \in Requests : RequestGrounded(q)'
  BY <1>3 DEF RequestGrounded, ContractInv, NeedsApproval
<1>6. QED
  BY <1>3, <1>4, <1>5 DEF ContractInv, NeedsApproval

-----------------------------------------------------------------------------
(* Requests *)

\* A step of request q leaves the others alone.
Only(q) == \A p \in Requests : p # q => request'[p] = request[p]

LEMMA Moves ==
    ASSUME Typed, NEW q \in Requests
    PROVE  /\ \A pc : Goto(q, pc) =>
                /\ Only(q) /\ request'[q].pc = pc
                /\ request'[q].seen = request[q].seen /\ request'[q].answer = request[q].answer
           /\ \A answer : Answer(q, answer) =>
                /\ Only(q) /\ request'[q].pc = "done"
                /\ request'[q].seen = request[q].seen /\ request'[q].answer = answer
BY DEF Typed, TypeOK, GatewayTypeOK, RequestRecord, Goto, Answer, Only

LEMMA AcceptedGrows ==
    ASSUME NEW q \in Requests, Only(q), request[q].answer # "accepted"
    PROVE  /\ Accepted' \in {Accepted, Accepted \cup {ReqRun[q]}}
           /\ request'[q].answer # "accepted" \/ ~Enqueues(q) => Accepted' = Accepted
BY DEF Accepted, Only, Enqueues

LEMMA ApprovableSame ==
    ASSUME NEW q \in Requests, Only(q),
           ReqKind[q] # "approve" \/ request'[q].seen.status = request[q].seen.status
    PROVE  Approvable' = Approvable
BY DEF Approvable, Only

LEMMA StopAskedGrows ==
    ASSUME Typed, GatewayNext, NEW q \in Requests, Only(q)
    PROVE  /\ StopAsked' \in {StopAsked, StopAsked \cup {ReqRun[q]}}
           /\ ReqKind[q] \notin {"cancel", "reject"} => StopAsked' = StopAsked
<1>1. \A r \in Runs : StopRequested(r) => StopRequested(r)'
  BY StopStays
<1>2. \A r \in Runs : r # ReqRun[q] => (StopRequested(r)' => StopRequested(r))
  BY DEF StopRequested, Only
<1>3. ReqKind[q] \notin {"cancel", "reject"} =>
        \A r \in Runs : StopRequested(r)' => StopRequested(r)
  BY DEF StopRequested, Only
<1>4. QED
  BY <1>1, <1>2, <1>3 DEF StopAsked

LEMMA GotoGrounded ==
    ASSUME Typed, ContractInv, NEW q \in Requests, NEW pc, Goto(q, pc),
           request[q].pc # "done",
           ReqKind[q] \in {"submit", "bundle", "client"} /\ InStream(ReqRun[q])' => pc = "undo",
           pc = "undo" => ReqKind[q] \in {"submit", "bundle", "spawnBundle", "approve"}
    PROVE  RequestGrounded(q)'
<1>1. /\ request'[q].pc = pc /\ request'[q].seen = request[q].seen
      /\ request'[q].answer = request[q].answer
  BY Moves
<1>2. RequestGrounded(q) /\ request[q].answer = "none"
  BY DEF ContractInv, RequestGrounded
<1>3. QED
  BY <1>1, <1>2 DEF RequestGrounded, NeedsApproval

LEMMA AnswerGrounded ==
    ASSUME Typed, ContractInv, NEW q \in Requests, NEW answer, Answer(q, answer),
           ReqKind[q] = "approve" /\ answer = "accepted"
                => request[q].seen.status = "PENDING_APPROVAL"
    PROVE  RequestGrounded(q)'
<1>1. /\ request'[q].pc = "done" /\ request'[q].seen = request[q].seen
      /\ request'[q].answer = answer
  BY Moves
<1>2. RequestGrounded(q)
  BY DEF ContractInv
<1>3. QED
  BY <1>1, <1>2 DEF RequestGrounded, NeedsApproval

\* A step of a request that publishes nothing.
LEMMA GatewayKeeps ==
    ASSUME ContractInv, UNCHANGED <<delivery, workStream>>,
           NEW q \in Requests, Only(q), RequestGrounded(q)',
           \A r \in Runs : runsKv'[r].status = "PENDING_APPROVAL" => NeedsApproval(r)
    PROVE  ContractInv'
<1>1. \A r : InStream(r)' <=> InStream(r)
  BY DEF InStream
<1>2. \A d \in Slots : DeliveryGrounded(delivery[d])'
  BY <1>1 DEF ContractInv, DeliveryGrounded
<1>3. \A p \in Requests : RequestGrounded(p)'
  BY <1>1 DEF ContractInv, RequestGrounded, NeedsApproval, Only
<1>4. QED
  BY <1>2, <1>3 DEF ContractInv, NeedsApproval

LEMMA PutKeepsWaiting ==
    ASSUME Typed, ContractInv, NEW k \in Runs, NEW snap, NEW applied, PutRun(k, snap, applied),
           snap.status = "PENDING_APPROVAL" => NeedsApproval(k)
    PROVE  \A r \in Runs : runsKv'[r].status = "PENDING_APPROVAL" => NeedsApproval(r)
BY DEF Typed, TypeOK, StoreTypeOK, PutRun, ContractInv

LEMMA UnchangedGrounds ==
    ASSUME ContractInv, UNCHANGED runsKv
    PROVE  \A r \in Runs : runsKv'[r].status = "PENDING_APPROVAL" => NeedsApproval(r)
BY DEF ContractInv

\* One submit per run: a run submitted otherwise needs no approval.
LEMMA NoApprovalNeeded ==
    ASSUME NEW q \in Requests, ReqKind[q] \in {"submit", "bundle", "client"}
    PROVE  ~NeedsApproval(ReqRun[q])
BY DEF NeedsApproval, SubmitKinds

LEMMA SubmitContract ==
    ASSUME Typed, ContractInv, GatewayNext, UNCHANGED delivery,
           NEW q \in Requests, SubmitPut(q)
    PROVE  [Contract!Next]_(Contract!vars) /\ ContractInv'
<1> DEFINE k == ReqRun[q]  snap == InitialSnapshot(ReqKind[q])
<1>1. /\ request[q].pc = "new" /\ ReqKind[q] \in SubmitKinds /\ UNCHANGED workStream
      /\ request[q].answer = "none" /\ k \in Runs /\ RequestGrounded(q)
  BY DEF SubmitPut, At, ContractInv, RequestGrounded
<1>2. PICK applied \in BOOLEAN :
        /\ PutRun(k, snap, applied)
        /\ \/ Goto(q, "relate") \/ Goto(q, "publish") \/ Answer(q, "failed")
           \/ ReqKind[q] = "submit" /\ Goto(q, "undo")
  BY DEF SubmitPut
<1>3. /\ snap \in Snapshot
      /\ ReqKind[q] = "spawnBundle" => snap.status = "PENDING_APPROVAL"
      /\ ReqKind[q] # "spawnBundle" => snap.status = "PENDING"
  <2>1. snap \in Snapshot
    BY <1>1, InitialTyped
  <2>2. /\ ReqKind[q] = "spawnBundle" => snap = Snap("PENDING_APPROVAL", FALSE, "pending")
        /\ ReqKind[q] \in {"submit", "bundle", "client"} => snap = Snap("PENDING", FALSE, "none")
    BY DEF InitialSnapshot
  <2> HIDE DEF snap
  <2>3. /\ ReqKind[q] = "spawnBundle" => snap.status = "PENDING_APPROVAL"
        /\ ReqKind[q] \in {"submit", "bundle", "client"} => snap.status = "PENDING"
    BY <2>2 DEF Snap
  <2>4. QED
    BY <1>1, <2>1, <2>3 DEF SubmitKinds
<1> HIDE DEF snap
<1>4. snap.status = "PENDING_APPROVAL" => NeedsApproval(k)
  BY <1>3 DEF NeedsApproval
<1>5. Grounded(k, snap.status)
  BY <1>1, <1>3, NoApprovalNeeded DEF Grounded, SubmitKinds
<1>6. /\ Only(q) /\ request'[q].seen = request[q].seen
      /\ request'[q].answer \in {"none", "failed"}
  BY <1>1, <1>2, Moves
<1>7. UNCHANGED <<Accepted, Approvable, StopAsked>>
  BY <1>1, <1>6, AcceptedGrows, ApprovableSame, StopAskedGrows DEF SubmitKinds
<1>8. [Contract!Next]_(Contract!vars)
  BY <1>1, <1>2, <1>3, <1>5, <1>7, PutMaps
<1>9. RequestGrounded(q)'
  <2>1. ReqKind[q] \in {"submit", "bundle", "client"} => ~InStream(k)'
    BY <1>1 DEF RequestGrounded, InStream
  <2>2. QED
    BY <1>1, <1>2, <2>1, GotoGrounded, AnswerGrounded
<1>10. ContractInv'
  BY <1>1, <1>2, <1>4, <1>6, <1>9, PutKeepsWaiting, GatewayKeeps
<1>11. QED
  BY <1>8, <1>10

LEMMA RelateContract ==
    ASSUME Typed, ContractInv, GatewayNext, UNCHANGED delivery,
           NEW q \in Requests, RelatePut(q) \/ GatewayCrash(q)
    PROVE  [Contract!Next]_(Contract!vars) /\ ContractInv'
<1>1. /\ request[q].pc \notin {"new", "done"} /\ UNCHANGED <<runsKv, reached, workStream>>
      /\ request[q].answer = "none" /\ ReqRun[q] \in Runs /\ RequestGrounded(q)
  BY DEF RelatePut, GatewayCrash, At, ContractInv, RequestGrounded
<1>2. \/ Answer(q, "failed")
      \/ ReqKind[q] \in {"bundle", "spawnBundle"} /\ Goto(q, "undo")
      \/ ReqKind[q] = "bundle" /\ request[q].pc = "relate" /\ Goto(q, "publish")
      \/ ReqKind[q] = "spawnBundle" /\ Answer(q, "accepted")
  BY DEF RelatePut, GatewayCrash, At
<1>3. /\ Only(q) /\ request'[q].seen = request[q].seen
      /\ request'[q].answer # "accepted" \/ ~Enqueues(q)
  BY <1>1, <1>2, Moves DEF Enqueues
<1>4. UNCHANGED <<Accepted, Approvable>> /\ StopAsked' \in {StopAsked, StopAsked \cup {ReqRun[q]}}
  BY <1>1, <1>3, AcceptedGrows, ApprovableSame, StopAskedGrows
<1>5. [Contract!Next]_(Contract!vars)
  BY <1>1, <1>4, UnchangedQuiet, QuietMaps
<1>6. RequestGrounded(q)'
  <2>1. request[q].pc = "relate" /\ ReqKind[q] \in {"submit", "bundle", "client"}
            => ~InStream(ReqRun[q])'
    BY <1>1 DEF RequestGrounded, InStream
  <2>2. QED
    BY <1>1, <1>2, <2>1, GotoGrounded, AnswerGrounded
<1>7. ContractInv'
  BY <1>1, <1>3, <1>6, UnchangedGrounds, GatewayKeeps
<1>8. QED
  BY <1>5, <1>7

LEMMA UndoContract ==
    ASSUME Typed, ApprovalInv, ContractInv, GatewayNext, UNCHANGED delivery,
           NEW q \in Requests, Undo(q)
    PROVE  [Contract!Next]_(Contract!vars) /\ ContractInv'
<1> DEFINE k == ReqRun[q]
           snap == IF ReqKind[q] = "approve" THEN request[q].seen ELSE Absent
<1>1. /\ request[q].pc = "undo" /\ UNCHANGED workStream /\ Answer(q, "failed")
      /\ request[q].answer = "none" /\ k \in Runs /\ RequestGrounded(q) /\ ApproveSound(q)
      /\ request[q].seen \in Snapshot
  BY DEF Undo, ContractInv, RequestGrounded, ApprovalInv, Typed, TypeOK, GatewayTypeOK,
         RequestRecord
<1>2. PICK applied \in BOOLEAN : PutRun(k, snap, applied)
  BY DEF Undo
<1>3. /\ snap \in Snapshot
      /\ \/ ReqKind[q] = "approve" /\ snap.status = "PENDING_APPROVAL"
         \/ ReqKind[q] \in {"submit", "bundle", "spawnBundle"} /\ snap.status = "absent"
  BY <1>1, AbsentTyped DEF ApproveSound, RequestGrounded, Absent, Snap
<1>4. snap.status = "PENDING_APPROVAL" => NeedsApproval(k)
  BY <1>1, <1>3 DEF RequestGrounded
<1>5. Grounded(k, snap.status)
  <2>1. ReqKind[q] = "spawnBundle" => NeedsApproval(k)
    BY DEF NeedsApproval
  <2>2. ASSUME ReqKind[q] \in {"submit", "bundle"}, k \in Accepted PROVE FALSE
    <3>1. PICK p \in Requests : /\ ReqRun[p] = k /\ Enqueues(p)
                                /\ request[p].answer = "accepted"
      BY <2>2 DEF Accepted
    <3>2. p # q /\ RequestGrounded(p)
      BY <1>1, <3>1 DEF ContractInv
    <3>3. ReqKind[p] = "approve"
      BY <2>2, <3>1, <3>2 DEF Enqueues, SubmitKinds
    <3>4. NeedsApproval(k)
      BY <3>1, <3>2, <3>3 DEF RequestGrounded
    <3>5. QED
      BY <2>2, <3>4, NoApprovalNeeded
  <2>3. QED
    BY <1>3, <2>1, <2>2 DEF Grounded
<1> HIDE DEF snap
<1>6. /\ Only(q) /\ request'[q].seen = request[q].seen /\ request'[q].answer = "failed"
  BY <1>1, Moves
<1>7. UNCHANGED <<Accepted, Approvable, StopAsked>>
  BY <1>1, <1>3, <1>6, AcceptedGrows, ApprovableSame, StopAskedGrows
<1>8. [Contract!Next]_(Contract!vars)
  BY <1>1, <1>2, <1>3, <1>5, <1>7, PutMaps
<1>9. RequestGrounded(q)'
  BY <1>1, AnswerGrounded
<1>10. ContractInv'
  BY <1>1, <1>2, <1>4, <1>6, <1>9, PutKeepsWaiting, GatewayKeeps
<1>11. QED
  BY <1>8, <1>10

LEMMA PublishContract ==
    ASSUME Typed, ApprovalInv, ContractInv, GatewayNext, UNCHANGED delivery,
           NEW q \in Requests, PublishJob(q)
    PROVE  [Contract!Next]_(Contract!vars) /\ ContractInv'
<1> DEFINE k == ReqRun[q]
<1>1. /\ request[q].pc = "publish" /\ UNCHANGED <<runsKv, reached>>
      /\ ReqKind[q] \in {"submit", "bundle", "client", "approve"}
      /\ request[q].answer = "none" /\ k \in Runs /\ RequestGrounded(q) /\ ApproveSound(q)
  BY DEF PublishJob, At, ContractInv, RequestGrounded, ApprovalInv
<1>2. PICK applied \in BOOLEAN :
        /\ PublishRun(k, applied)
        /\ \/ applied /\ Answer(q, "accepted")
           \/ Answer(q, "failed")
           \/ ReqKind[q] \in {"submit", "bundle", "approve"} /\ Goto(q, "undo")
  BY <1>1 DEF PublishJob, Remote, CleansUpAfter
<1>3. Only(q) /\ request'[q].seen = request[q].seen
  BY <1>2, Moves
<1>4. UNCHANGED <<Approvable, StopAsked>>
  BY <1>1, <1>3, ApprovableSame, StopAskedGrows
<1>5. SameShown
  BY <1>1 DEF SameShown, Shown
<1>6. ReqKind[q] = "approve" => request[q].seen.status = "PENDING_APPROVAL" /\ NeedsApproval(k)
  BY <1>1 DEF ApproveSound, RequestGrounded
<1>7. /\ IF NeedsApproval(k) THEN k \in Approvable ELSE ~InStream(k)
      /\ ReqKind[q] # "approve" => ~InStream(k)
  <2>1. CASE ReqKind[q] = "approve"
    BY <1>6, <2>1 DEF Approvable
  <2>2. CASE ReqKind[q] \in {"submit", "bundle", "client"}
    BY <1>1, <2>2, NoApprovalNeeded DEF RequestGrounded
  <2>3. QED
    BY <1>1, <2>1, <2>2
<1>8. RequestGrounded(q)'
  BY <1>1, <1>2, <1>6, GotoGrounded, AnswerGrounded
<1>9. CASE ~applied
  <2>1. UNCHANGED workStream
    BY <1>2, <1>9 DEF PublishRun
  <2>2. request'[q].answer # "accepted"
    BY <1>1, <1>2, <1>9, Moves
  <2>3. [Contract!Next]_(Contract!vars)
    BY <1>1, <1>3, <1>4, <2>1, <2>2, AcceptedGrows, UnchangedQuiet, QuietMaps
  <2>4. ContractInv'
    BY <1>1, <1>3, <1>8, <2>1, UnchangedGrounds, GatewayKeeps
  <2>5. QED
    BY <2>3, <2>4
<1>10. CASE applied
  <2>1. PICK m \in Msgs :
            /\ workStream[m].state = "unused"
            /\ workStream' = [workStream EXCEPT ![m] = [state |-> "ready", run |-> k, tries |-> 0]]
    BY <1>2, <1>10 DEF PublishRun
  <2>2. /\ workStream'[m].state = "ready" /\ workStream'[m].run = k
        /\ \A n \in Msgs : n # m => workStream'[n] = workStream[n]
    BY <2>1 DEF Typed, TypeOK, StoreTypeOK
  <2>3. /\ InStream(k)' /\ \A r : r # k => (InStream(r)' <=> InStream(r))
        /\ \A r : InStream(r) => InStream(r)'
    BY <2>1, <2>2 DEF InStream
  <2>4. Jobs' = [Jobs EXCEPT ![k] = "queued"]
    <3>1. Jobs'[k] = "queued"
      BY <1>1, <2>2 DEF Jobs
    <3>2. \A r \in Runs : r # k => Jobs'[r] = Jobs[r]
      BY <2>1, <2>2 DEF Jobs
    <3>3. Jobs = [r \in Runs |-> Jobs[r]] /\ Jobs' = [r \in Runs |-> Jobs'[r]]
      BY DEF Jobs
    <3>4. QED
      BY <1>1, <3>1, <3>2, <3>3
  <2>5. IF NeedsApproval(k) THEN k \in Approvable ELSE Jobs[k] = "none"
    BY <1>1, <1>7, JobsAre
  <2>6. Accepted' \in {Accepted, Accepted \cup {k}}
    BY <1>1, <1>3, AcceptedGrows
  <2>7. Contract!Next
    BY <1>1, <1>4, <1>5, <2>4, <2>5, <2>6, MapsToEnqueue
  <2>8. ASSUME NEW p \in Requests PROVE RequestGrounded(p)'
    <3>1. CASE p = q
      BY <1>8, <3>1
    <3>2. CASE p # q /\ ReqRun[p] # k
      BY <1>3, <2>3, <3>2 DEF ContractInv, RequestGrounded, NeedsApproval, Only
    <3>3. CASE p # q /\ ReqRun[p] = k
      <4>1. ReqKind[p] \notin {"submit", "bundle", "client"}
        <5>1. CASE ReqKind[q] = "approve"
          BY <1>6, <3>3, <5>1, NoApprovalNeeded
        <5>2. CASE ReqKind[q] \in {"submit", "bundle", "client"}
          BY <3>3, <5>2 DEF SubmitKinds
        <5>3. QED
          BY <1>1, <5>1, <5>2
      <4>2. QED
        BY <1>3, <3>3, <4>1 DEF ContractInv, RequestGrounded, NeedsApproval, Only
    <3>4. QED
      BY <3>1, <3>2, <3>3
  <2>9. \A d \in Slots : DeliveryGrounded(delivery[d])'
    BY <2>3 DEF ContractInv, DeliveryGrounded
  <2>10. \A r \in Runs : (runsKv[r].status = "PENDING_APPROVAL" => NeedsApproval(r))'
    BY <1>1 DEF ContractInv, NeedsApproval
  <2>11. QED
    BY <2>7, <2>8, <2>9, <2>10 DEF ContractInv
<1>11. QED
  BY <1>9, <1>10

LEMMA ReadContract ==
    ASSUME Typed, ApprovalInv, ContractInv, GatewayNext, UNCHANGED delivery,
           NEW q \in Requests, ReadRun(q)
    PROVE  [Contract!Next]_(Contract!vars) /\ ContractInv'
<1> DEFINE k == ReqRun[q]  snap == runsKv[k]
<1>1. /\ request[q].pc = "new" /\ UNCHANGED <<runsKv, reached, workStream>>
      /\ ReqKind[q] \in {"approve", "reject", "cancel"}
      /\ request[q].answer = "none" /\ k \in Runs /\ RequestGrounded(q) /\ ApproveSound(q)
      /\ request \in [Requests -> RequestRecord]
  BY DEF ReadRun, At, ContractInv, RequestGrounded, ApprovalInv, Typed, TypeOK, GatewayTypeOK
<1>2. snap.status = "PENDING_APPROVAL" => NeedsApproval(k)
  BY <1>1 DEF ContractInv
<1>3. CASE Answer(q, "failed")
  <2>1. /\ Only(q) /\ request'[q].seen = request[q].seen /\ request'[q].answer = "failed"
    BY <1>3, Moves
  <2>2. UNCHANGED <<Accepted, Approvable>> /\ StopAsked' \in {StopAsked, StopAsked \cup {k}}
    BY <1>1, <2>1, AcceptedGrows, ApprovableSame, StopAskedGrows
  <2>3. [Contract!Next]_(Contract!vars)
    BY <1>1, <2>2, UnchangedQuiet, QuietMaps
  <2>4. RequestGrounded(q)'
    BY <1>3, AnswerGrounded
  <2>5. ContractInv'
    BY <1>1, <2>1, <2>4, UnchangedGrounds, GatewayKeeps
  <2>6. QED
    BY <2>3, <2>5
<1>4. ASSUME NEW pc \in {"put", "done"}, NEW answer,
             request' = [request EXCEPT ![q] = [pc |-> pc, seen |-> snap, answer |-> answer]],
             pc = "put" <=> Decidable(ReqKind[q], snap),
             answer = "none" \/ pc = "done",
             answer = "accepted" => ReqKind[q] = "cancel"
      PROVE  [Contract!Next]_(Contract!vars) /\ ContractInv'
  <2>1. /\ Only(q) /\ request'[q].pc = pc /\ request'[q].seen = snap
        /\ request'[q].answer = answer
    BY <1>1, <1>4 DEF Only
  <2>2. Accepted' = Accepted
    BY <1>1, <1>4, <2>1, AcceptedGrows DEF Enqueues
  <2>3. StopAsked' \in {StopAsked, StopAsked \cup {k}}
    BY <2>1, StopAskedGrows
  <2>4. [Contract!Next]_(Contract!vars)
    <3>1. CASE ReqKind[q] = "approve" /\ snap.status = "PENDING_APPROVAL"
      <4>1. StopAsked' = StopAsked
        BY <2>1, <3>1, StopAskedGrows
      <4>2. Approvable' = Approvable \cup {k}
        BY <2>1, <3>1 DEF Approvable, Only
      <4>3. SameShown /\ Jobs' = Jobs
        BY <1>1 DEF SameShown, Shown, Jobs
      <4>4. QED
        BY <1>1, <2>2, <3>1, <4>1, <4>2, <4>3, MapsToApprove
    <3>2. CASE ReqKind[q] # "approve"
      <4>1. Approvable' = Approvable
        BY <2>1, <3>2, ApprovableSame
      <4>2. QED
        BY <1>1, <2>2, <2>3, <4>1, UnchangedQuiet, QuietMaps
    <3>3. CASE ReqKind[q] = "approve" /\ snap.status # "PENDING_APPROVAL"
      <4>1. Approvable' = Approvable
        BY <1>1, <2>1, <3>3 DEF ApproveSound, Approvable, Only
      <4>2. QED
        BY <1>1, <2>2, <2>3, <4>1, UnchangedQuiet, QuietMaps
    <3>4. QED
      BY <3>1, <3>2, <3>3
  <2>5. RequestGrounded(q)'
    BY <1>1, <1>2, <1>4, <2>1 DEF RequestGrounded, NeedsApproval
  <2>6. ContractInv'
    BY <1>1, <2>1, <2>5, UnchangedGrounds, GatewayKeeps
  <2>7. QED
    BY <2>4, <2>6
<1>5. QED
  BY <1>3, <1>4 DEF ReadRun

LEMMA DecisionContract ==
    ASSUME Typed, CancelInv, ApprovalInv, ContractInv, GatewayNext, UNCHANGED delivery,
           NEW q \in Requests, DecisionPut(q)
    PROVE  [Contract!Next]_(Contract!vars) /\ ContractInv'
<1> DEFINE k == ReqRun[q]  snap == Decided(ReqKind[q], request[q].seen)
<1>1. /\ request[q].pc = "put" /\ UNCHANGED workStream
      /\ ReqKind[q] \in {"approve", "reject", "cancel"} /\ request[q].seen \in Snapshot
      /\ request[q].answer = "none" /\ k \in Runs /\ RequestGrounded(q) /\ ApproveSound(q)
      /\ RequestJustified(q)
  BY DEF DecisionPut, At, ContractInv, RequestGrounded, ApprovalInv, CancelInv,
         Typed, TypeOK, GatewayTypeOK, RequestRecord
<1>2. PICK applied \in BOOLEAN :
        /\ PutRun(k, snap, applied)
        /\ \/ ReqKind[q] = "approve" /\ Goto(q, "publish")
           \/ ReqKind[q] = "approve" /\ Goto(q, "undo")
           \/ Answer(q, "failed")
           \/ ReqKind[q] # "approve" /\ Answer(q, "accepted")
  BY DEF DecisionPut
<1>3. snap \in Snapshot
  BY <1>1, DecidedTyped
<1>4. /\ ReqKind[q] = "approve" => snap.status = "PENDING"
      /\ ReqKind[q] # "approve" => snap.status \in {"CANCELLING", "CANCELLED"}
  BY <1>1 DEF Decided, Snap
<1> HIDE DEF snap
<1>5. /\ Only(q) /\ request'[q].seen = request[q].seen
      /\ request'[q].answer # "accepted" \/ ~Enqueues(q)
  BY <1>1, <1>2, Moves DEF Enqueues
<1>6. UNCHANGED <<Accepted, Approvable>> /\ StopAsked' \in {StopAsked, StopAsked \cup {k}}
  BY <1>1, <1>5, AcceptedGrows, ApprovableSame, StopAskedGrows
<1>7. Grounded(k, snap.status)
  <2>1. ReqKind[q] = "approve" => k \in Approvable
    BY <1>1 DEF ApproveSound, Approvable
  <2>2. ReqKind[q] # "approve" => StopRequested(k)'
    <3>1. ASSUME ReqKind[q] # "approve"
          PROVE  request'[q].pc = "done" /\ request'[q].answer # "refused"
      BY <1>2, <3>1, Moves
    <3>2. request'[q].seen.status \notin Terminal \cup {"absent"}
      BY <1>1, <1>5 DEF RequestJustified
    <3>3. QED
      BY <1>1, <3>1, <3>2 DEF StopRequested
  <2>3. QED
    BY <1>4, <2>1, <2>2 DEF Grounded
<1>8. [Contract!Next]_(Contract!vars)
  BY <1>1, <1>2, <1>3, <1>6, <1>7, PutMaps
<1>9. RequestGrounded(q)'
  BY <1>1, <1>2, GotoGrounded, AnswerGrounded
<1>10. ContractInv'
  BY <1>1, <1>2, <1>4, <1>5, <1>9, PutKeepsWaiting, GatewayKeeps
<1>11. QED
  BY <1>8, <1>10

LEMMA GatewayContract ==
    ASSUME Typed, CancelInv, ApprovalInv, ContractInv, GatewayNext, UNCHANGED delivery
    PROVE  [Contract!Next]_(Contract!vars) /\ ContractInv'
BY SubmitContract, RelateContract, UndoContract, PublishContract, ReadContract,
   DecisionContract DEF GatewayNext, RequestStep

-----------------------------------------------------------------------------
\* The run handlers of the gateway (http_api.py), the workers (worker.py) and
\* the work queue keep the contract they have with clients together, for any
\* number of runs, requests, workers, deliveries and faults: a run executes
\* only because it was queued, is queued only once or after an approval, is
\* forgotten by the queue only when it has ended, is stopped only when someone
\* asked, and never disappears once a client was told that it was accepted.
THEOREM RunsKeepTheContract == Spec => KeepsContract
<1> DEFINE All == Typed /\ QueueInv /\ CancelInv /\ ApprovalInv /\ ContractInv
<1>1. Init => All /\ Contract!Init
  BY InitTyped, InitQueue, InitCancel, InitApproval, InitContract, InitMaps
<1>2. All /\ [Next]_vars => [Contract!Next]_(Contract!vars) /\ ContractInv'
  <2>1. ASSUME All, Next PROVE [Contract!Next]_(Contract!vars) /\ ContractInv'
    BY <2>1, GatewayContract, WorkerContract DEF Next
  <2>2. ASSUME All, UNCHANGED vars PROVE UNCHANGED Contract!vars /\ ContractInv'
    <3>1. UNCHANGED <<Jobs, Accepted, Approvable, StopAsked>> /\ SameShown
      BY <2>2 DEF vars, Jobs, Accepted, Approvable, StopAsked, StopRequested, SameShown,
                  Shown, Enqueues
    <3>2. ContractInv'
      BY <2>2 DEF vars, ContractInv, DeliveryGrounded, RequestGrounded, NeedsApproval, InStream
    <3>3. QED
      BY <3>1, <3>2, MapsToNone
  <2>3. QED
    BY <2>1, <2>2
<1>3. Spec => [](Typed /\ QueueInv /\ CancelInv /\ ApprovalInv)
  BY TypeCorrect, QueueInvariant, CancelInvariant, ApprovalInvariant, PTL
<1>4. QED
  BY <1>1, <1>2, <1>3, PTL DEF Spec, KeepsContract, Contract!Spec

=============================================================================
