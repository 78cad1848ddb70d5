------------------------------ MODULE RunStore ------------------------------
(***************************************************************************)
(* What the gateway and the workers share: the key-value bucket that holds *)
(* one snapshot per run (`pyoco_runs`) and the work-queue stream that      *)
(* holds one message per published job (`PYOCO_WORK`).                     *)
(*                                                                         *)
(* A snapshot is cut down to the three fields the handlers branch on: the  *)
(* status, whether a cancel request is recorded (`cancel_requested_at`),   *)
(* and the approval status.  `reached` is a history variable: the runs for *)
(* which a terminal snapshot has ever been stored.                         *)
(***************************************************************************)
EXTENDS Integers, FiniteSets

CONSTANTS
    Runs,           \* run ids (uuid4, never reused)
    NoRun,          \* the run of a message whose payload does not decode
    MaxMsgs,        \* bound: sequence numbers the work-queue stream hands out
    Poison,         \* messages an outside publisher left undecodable
    MaxDeliver,     \* consumer_max_deliver of the durable consumers
    MaxFaults       \* bound: remote calls that fail and processes that crash

ASSUME StoreAssumption ==
    /\ NoRun \notin Runs
    /\ MaxMsgs \in Nat
    /\ Poison \subseteq 1..MaxMsgs
    /\ MaxDeliver \in Nat \ {0}
    /\ MaxFaults \in Nat

VARIABLES
    runsKv,         \* run id -> snapshot
    reached,        \* runs whose snapshot has been terminal at some time
    workStream,     \* sequence number -> message
    faultsLeft      \* remaining faults, at most MaxFaults

storeVars == <<runsKv, reached, workStream, faultsLeft>>

-----------------------------------------------------------------------------
(* Snapshots *)

Terminal == {"COMPLETED", "FAILED", "CANCELLED"}
Statuses == {"PENDING", "PENDING_APPROVAL", "RUNNING", "CANCELLING"} \cup Terminal
\* "none" is no approval field, or "not_required".
Approvals == {"none", "pending", "approved", "rejected"}

Snapshot == [status : Statuses \cup {"absent"}, cancel : BOOLEAN, approval : Approvals]
Snap(status, cancel, approval) ==
    [status |-> status, cancel |-> cancel, approval |-> approval]
Absent == Snap("absent", FALSE, "none")

\* (Any snapshot that is not pending or running taken for a cancel request.)
NotGoingOn(snap) == snap.cancel \/ snap.status \notin {"PENDING", "RUNNING"}

\* Whether a snapshot asks for cancellation: the flag, or a status that says so.
CancelRequested(snap) == snap.cancel \/ snap.status \in {"CANCELLING", "CANCELLED"}

-----------------------------------------------------------------------------
(* Messages: "out" is delivered and unacknowledged, "gone" is acked or termed *)

Msgs == 1..MaxMsgs
Message == [state : {"unused", "ready", "out", "gone"},
            run : Runs \cup {NoRun},
            tries : 0..MaxDeliver]

StoreTypeOK ==
    /\ runsKv \in [Runs -> Snapshot]
    /\ reached \subseteq Runs
    /\ workStream \in [Msgs -> Message]
    /\ faultsLeft \in 0..MaxFaults

StoreInit ==
    /\ runsKv = [r \in Runs |-> Absent]
    /\ reached = {}
    /\ workStream = [m \in Msgs |->
            [state |-> IF m \in Poison THEN "ready" ELSE "unused",
             run |-> NoRun, tries |-> 0]]
    /\ faultsLeft = MaxFaults

-----------------------------------------------------------------------------
(* Remote calls.  A call that raises may or may not have been applied by   *)
(* the server (the reply can be what was lost), and what it raises is a    *)
(* nats error or some other exception: the callers treat the two apart.    *)

Errors == {"none", "NatsError", "Exception"}

Remote(applied, err) ==
    /\ err = "none" => applied
    /\ err # "none" => faultsLeft > 0
    /\ faultsLeft' = IF err = "none" THEN faultsLeft ELSE faultsLeft - 1

\* kv.put of a whole snapshot: unconditional, whatever the key holds by now.
PutRun(r, snap, applied) ==
    /\ runsKv' = IF applied THEN [runsKv EXCEPT ![r] = snap] ELSE runsKv
    /\ reached' = IF applied /\ snap.status \in Terminal THEN reached \cup {r} ELSE reached

\* js.publish of a job: the stream stores it under the next sequence number.
PublishRun(r, applied) ==
    IF ~applied THEN UNCHANGED workStream
    ELSE \E m \in Msgs :
            /\ workStream[m].state = "unused"
            /\ \A k \in Msgs : workStream[k].state = "unused" => m <= k
            /\ workStream' = [workStream EXCEPT
                    ![m] = [state |-> "ready", run |-> r, tries |-> 0]]

\* msg.ack, msg.term: the work-queue retention drops the message for good.
RemoveMsg(m, applied) ==
    workStream' = IF applied THEN [workStream EXCEPT ![m].state = "gone"] ELSE workStream

\* A message the server may hand out (again): MaxDeliver ends the retries.
Deliverable(m) == workStream[m].state = "ready" /\ workStream[m].tries < MaxDeliver

=============================================================================
